---- MODULE Spec2Model ----
(***************************************************************************)
(* Model of the memecoin trading engine's risk manager                     *)
(* (src/src/risk_manager.rs), its persistence layer (src/src/database.rs)  *)
(* and the execution engine (src/src/execution.rs), and of the signal      *)
(* pipeline of src/src/main.rs with its feature buffer                     *)
(* (src/src/feature_buffer.rs) and signal derivation (src/src/types.rs).   *)
(*                                                                         *)
(* Numbers.  The program computes in f64.  The model computes in exact     *)
(* integers: a price is a whole number of price units, a money amount a    *)
(* whole number of USD, a percentage p stands for the fraction p/PctScale. *)
(* trailing_stop is kept in units of 1/PctScale of a price unit, so that   *)
(* peak * (1 - pct) is exact; unrealized_pnl_pct is kept in basis points,  *)
(* rounded down, which leaves every comparison with a whole percentage     *)
(* exact.  The pipeline's tensor is f32: the conversion of a tick's f64    *)
(* price and volume is modelled by rounding to 24 significant bits.        *)
(* Similarities and anomaly scores are whole numbers of 1/SimilarityScale, *)
(* confidences of 1/ConfidenceScale.                                       *)
(***************************************************************************)
EXTENDS Integers, Sequences, FiniteSets, TLC

VARIABLES
    config,          \* RiskManager.config
    portfolio,       \* RiskManager.portfolio
    positions,       \* RiskManager.positions : symbol -> Position
    now,             \* the monotonic clock read by Instant::now()
    rm_lock,         \* holder of the tokio Mutex around the RiskManager
    ret,             \* what the most recent direct RiskManager call returned
    current_prices,  \* the price map handed to the most recent update_positions
    ticks,           \* number of update_positions calls made
    ops,             \* number of direct RiskManager calls made
    pc,              \* where each engine task stands in execute_buy / execute_sell
    call,            \* the locals of each engine task's current call
    calls,           \* number of execute_buy / execute_sell calls started
    db_positions,    \* rows of table positions, row id = index
    db_trades,       \* rows of table trades, row id = index
    chain,           \* number of transactions the node has confirmed
    shutdown,        \* main has returned: the runtime is being dropped
    opt,             \* the command line options window_size and threshold
    data,            \* FeatureBuffer.data of the feature task
    received,        \* number of ticks the feature task has received
    ft,              \* the feature task: its position and its locals
    tensors,         \* number of calls of extract_features
    signal_ch,       \* the signal channel
    executed,        \* the signals execute_trade was called with
    vs_calls,        \* number of calls of find_similar and insert_pattern
    patterns,        \* number of points in the vector store's collection
    ws,              \* the ingestion task: its position in stream_jupiter_websocket
    tick_ch,         \* the tick channel
    builder,         \* the CandleBuilder of the ladder sniper
    instant,         \* Instant::now(), in units of the model's clock
    added            \* number of calls of CandleBuilder::add_trade

vars == <<config, portfolio, positions, now, rm_lock, ret, current_prices,
          ticks, ops, pc, call, calls, db_positions, db_trades, chain,
          shutdown, opt, data, received, ft, tensors, signal_ch, executed,
          vs_calls, patterns, ws, tick_ch, builder, instant, added>>

rm_vars == <<config, portfolio, positions>>
engine_vars == <<pc, call, calls, db_positions, db_trades, chain>>
pipeline_vars == <<opt, data, received, ft, tensors, signal_ch, executed,
                   vs_calls, patterns, ws, tick_ch>>
trading_vars == <<rm_vars, now, rm_lock, ret, current_prices, ticks, ops,
                  engine_vars, shutdown>>
candle_vars == <<builder, instant, added>>

----------------------------------------------------------------------------
(* Bounds of the model *)

MaxOps == 5          \* direct RiskManager calls in RiskSpec
MaxCalls == 2        \* execute_buy / execute_sell calls in Spec
MaxTicks == 1        \* update_positions calls in Spec

Symbols == {"BONK", "WIF"}
EngineSymbols == {"BONK"}              \* the instrument the engine's callers trade
Workers == {"w1", "w2"}
Prices == {94, 95, 96, 100, 103, 105}      \* prices of the tick stream
ExitPrices == {96, 100, 105}           \* exit prices of direct closes
EnginePrices == {96}                   \* prices of the ticks in Spec
EntryPrices == {100}                   \* entry prices of direct opens
Sizes == {500}                         \* sizes of direct opens
BuyQuotePrices == {100}                \* in_amount / out_amount of a buy quote
SellQuotePrices == {100, 105}          \* out_amount / in_amount of a sell quote
PriceImpacts == {50, 200}              \* price_impact_pct of a buy quote, in basis points
SellPriceImpacts == {50}               \* price_impact_pct of a sell quote, in basis points
Confidences == {30, 80}                \* signal.confidence, in percent
ExitReasons == {"manual"}              \* exit_reason of a sell
StartingCapital == 10000

MaxPolicyOps == 5    \* opens, closes, resets and clock advances in PolicySpec
Day == 24            \* hours from a day anchor to the day's rollover
Week == 168          \* hours from a week anchor to the week's rollover
Delays == {1, Day, Week}               \* hours the clock advances at a time
PolicySizes == {1000, 2000}            \* sizes of validated opens
PolicyExitPrices == {20, 100, 120}     \* exit prices of closes in PolicySpec
ProposedSizes == {500, 1500, 20000}    \* sizes handed to validate_trade
ValidateVolatilities == {2, 60}        \* estimated_volatility handed to validate_trade
SizingVolatilities == {0, 2, 4}        \* estimated_volatility handed to sizing
SizingConfidences == {30, 40, 80}      \* signal.confidence handed to sizing
PolicySymbols == {"BONK"}              \* the instrument traded in PolicySpec
NoOne == "none"

----------------------------------------------------------------------------
(* Fixed-point representation *)

PctScale == 100          \* a fraction f is the whole number f * PctScale
BpPerPct == 100          \* unrealized_pnl_pct is kept in 1/(PctScale*BpPerPct)

Min(a, b) == IF a < b THEN a ELSE b
Max(a, b) == IF a > b THEN a ELSE b

----------------------------------------------------------------------------
(* RiskConfig *)

DefaultConfig ==
    [ max_position_size_usd      |-> 1000,
      max_position_pct_portfolio |-> 20,
      hard_stop_loss_pct         |-> 5,
      trailing_stop_loss_pct     |-> 3,
      max_total_positions        |-> 5,
      vol_target                 |-> 2,
      max_daily_drawdown_pct     |-> 15,
      max_weekly_drawdown_pct    |-> 25,
      cooldown_after_loss_streak |-> 3,
      cooldown_duration          |-> 1,
      kelly_fraction             |-> 25 ]

\* The stop-loss settings a RiskManager may be constructed with.
Configs ==
    { [DefaultConfig EXCEPT !.hard_stop_loss_pct = h, !.trailing_stop_loss_pct = t] :
        h \in {5}, t \in {3, 5} }

----------------------------------------------------------------------------
(* Position *)

InitialTrailFactor == 97

Position_new(symbol, entry_price, size, t) ==
    [ symbol             |-> symbol,
      entry_price        |-> entry_price,
      current_price      |-> entry_price,
      size               |-> size,
      entry_time         |-> t,
      peak_price         |-> entry_price,
      trailing_stop      |-> entry_price * InitialTrailFactor,
      unrealized_pnl     |-> 0,
      unrealized_pnl_pct |-> 0 ]

\* Mutant: the peak follows the price down as well as up.
update_price_PeakOverwritten(pos, price) ==
    [ pos EXCEPT
        !.current_price      = price,
        !.unrealized_pnl     = ((price - pos.entry_price) * pos.size) \div pos.entry_price,
        !.unrealized_pnl_pct =
            ((price - pos.entry_price) * PctScale * BpPerPct) \div pos.entry_price,
        !.peak_price         = price ]

update_price(pos, price) ==
    [ pos EXCEPT
        !.current_price      = price,
        !.unrealized_pnl     = ((price - pos.entry_price) * pos.size) \div pos.entry_price,
        !.unrealized_pnl_pct =
            ((price - pos.entry_price) * PctScale * BpPerPct) \div pos.entry_price,
        !.peak_price         = IF price > pos.peak_price THEN price ELSE pos.peak_price ]

update_trailing_stop(pos, trailing_pct) ==
    [ pos EXCEPT !.trailing_stop = pos.peak_price * (PctScale - trailing_pct) ]

----------------------------------------------------------------------------
(* Portfolio *)

Portfolio_new(starting_capital, t) ==
    [ starting_capital   |-> starting_capital,
      current_capital    |-> starting_capital,
      available_capital  |-> starting_capital,
      total_pnl          |-> 0,
      daily_pnl          |-> 0,
      weekly_pnl         |-> 0,
      consecutive_losses |-> 0,
      consecutive_wins   |-> 0,
      total_trades       |-> 0,
      winning_trades     |-> 0,
      losing_trades      |-> 0,
      day_start_capital  |-> starting_capital,
      week_start_capital |-> starting_capital,
      day_start_time     |-> t,
      week_start_time    |-> t,
      last_loss_time     |-> -1,
      peak_capital       |-> starting_capital ]

reset_daily(pf, t) ==
    [ pf EXCEPT !.day_start_capital = pf.current_capital,
                !.daily_pnl         = 0,
                !.day_start_time    = t ]

reset_weekly(pf, t) ==
    [ pf EXCEPT !.week_start_capital = pf.current_capital,
                !.weekly_pnl         = 0,
                !.week_start_time    = t ]

----------------------------------------------------------------------------
(* RiskManager *)

daily_pnl_pct_lt(pf, pct) ==
    \* daily_pnl / day_start_capital < -pct/PctScale, for day_start_capital > 0
    pf.daily_pnl * PctScale < (0 - pct) * pf.day_start_capital

weekly_pnl_pct_lt(pf, pct) ==
    pf.weekly_pnl * PctScale < (0 - pct) * pf.week_start_capital

\* win_loss_ratio = 1.5 = WinLossNum / WinLossDen
WinLossNum == 3
WinLossDen == 2

\* kelly = max(0, (p*b - (1-p)) / b), as the fraction KellyNum / KellyDen,
\* for a confidence of conf percent.
\* Mutant: a negative Kelly fraction is not raised to zero.
KellyNum_Unclamped(conf) == conf * WinLossNum - (PctScale - conf) * WinLossDen

KellyNum(conf) == Max(0, conf * WinLossNum - (PctScale - conf) * WinLossDen)
KellyDen == WinLossNum * PctScale

\* Mutant: the absolute cap max_position_size_usd is not applied.
calculate_position_size_NoAbsCap(cfg, pf, conf, estimated_volatility) ==
    LET available == pf.available_capital
        vs_num == IF estimated_volatility > 0
                  THEN Min(cfg.vol_target, estimated_volatility) ELSE 1
        vs_den == IF estimated_volatility > 0 THEN estimated_volatility ELSE 1
        base_size == (available * KellyNum(conf) * cfg.kelly_fraction * vs_num)
                        \div (KellyDen * PctScale * vs_den)
        max_pct_size == (available * cfg.max_position_pct_portfolio) \div PctScale
    IN  Min(base_size, max_pct_size)

calculate_position_size(cfg, pf, conf, estimated_volatility) ==
    LET available == pf.available_capital
        \* vol_scalar = min(vol_target / vol, 1) when vol > 0, else 1
        vs_num == IF estimated_volatility > 0
                  THEN Min(cfg.vol_target, estimated_volatility) ELSE 1
        vs_den == IF estimated_volatility > 0 THEN estimated_volatility ELSE 1
        base_size == (available * KellyNum(conf) * cfg.kelly_fraction * vs_num)
                        \div (KellyDen * PctScale * vs_den)
        max_pct_size == (available * cfg.max_position_pct_portfolio) \div PctScale
        max_abs_size == cfg.max_position_size_usd
    IN  Min(Min(base_size, max_pct_size), max_abs_size)

ExtremeVolatility == 50

\* The engine computes the volatility as the literal 0.02.
BuyVolatility == 2

\* Mutant: the position count is compared with > instead of >=.
validate_trade_CountOffByOne(cfg, pf, pos, size, estimated_volatility, t) ==
    IF Cardinality(DOMAIN pos) > cfg.max_total_positions
        THEN "MaxPositionsReached"
    ELSE IF daily_pnl_pct_lt(pf, cfg.max_daily_drawdown_pct)
        THEN "DrawdownLimitExceeded"
    ELSE IF weekly_pnl_pct_lt(pf, cfg.max_weekly_drawdown_pct)
        THEN "DrawdownLimitExceeded"
    ELSE IF /\ pf.consecutive_losses >= cfg.cooldown_after_loss_streak
            /\ pf.last_loss_time >= 0
            /\ t - pf.last_loss_time < cfg.cooldown_duration
        THEN "LossStreakCooldown"
    ELSE IF estimated_volatility > ExtremeVolatility
        THEN "ExtremeVolatility"
    ELSE IF size > pf.available_capital
        THEN "InsufficientCapital"
    ELSE IF size > cfg.max_position_size_usd
        THEN "PositionSizeTooLarge"
    ELSE "Ok"

\* Mutant: the cooldown does not look at the time since the last loss.
validate_trade_EndlessCooldown(cfg, pf, pos, size, estimated_volatility, t) ==
    IF Cardinality(DOMAIN pos) >= cfg.max_total_positions
        THEN "MaxPositionsReached"
    ELSE IF daily_pnl_pct_lt(pf, cfg.max_daily_drawdown_pct)
        THEN "DrawdownLimitExceeded"
    ELSE IF weekly_pnl_pct_lt(pf, cfg.max_weekly_drawdown_pct)
        THEN "DrawdownLimitExceeded"
    ELSE IF /\ pf.consecutive_losses >= cfg.cooldown_after_loss_streak
            /\ pf.last_loss_time >= 0
        THEN "LossStreakCooldown"
    ELSE IF estimated_volatility > ExtremeVolatility
        THEN "ExtremeVolatility"
    ELSE IF size > pf.available_capital
        THEN "InsufficientCapital"
    ELSE IF size > cfg.max_position_size_usd
        THEN "PositionSizeTooLarge"
    ELSE "Ok"

\* Mutant: the size is compared with the absolute cap before the available capital.
validate_trade_SizeOrderSwapped(cfg, pf, pos, size, estimated_volatility, t) ==
    IF Cardinality(DOMAIN pos) >= cfg.max_total_positions
        THEN "MaxPositionsReached"
    ELSE IF daily_pnl_pct_lt(pf, cfg.max_daily_drawdown_pct)
        THEN "DrawdownLimitExceeded"
    ELSE IF weekly_pnl_pct_lt(pf, cfg.max_weekly_drawdown_pct)
        THEN "DrawdownLimitExceeded"
    ELSE IF /\ pf.consecutive_losses >= cfg.cooldown_after_loss_streak
            /\ pf.last_loss_time >= 0
            /\ t - pf.last_loss_time < cfg.cooldown_duration
        THEN "LossStreakCooldown"
    ELSE IF estimated_volatility > ExtremeVolatility
        THEN "ExtremeVolatility"
    ELSE IF size > cfg.max_position_size_usd
        THEN "PositionSizeTooLarge"
    ELSE IF size > pf.available_capital
        THEN "InsufficientCapital"
    ELSE "Ok"

\* Mutant: the size is not compared with the available capital.
validate_trade_NoCapitalCheck(cfg, pf, pos, size, estimated_volatility, t) ==
    IF Cardinality(DOMAIN pos) >= cfg.max_total_positions
        THEN "MaxPositionsReached"
    ELSE IF daily_pnl_pct_lt(pf, cfg.max_daily_drawdown_pct)
        THEN "DrawdownLimitExceeded"
    ELSE IF weekly_pnl_pct_lt(pf, cfg.max_weekly_drawdown_pct)
        THEN "DrawdownLimitExceeded"
    ELSE IF /\ pf.consecutive_losses >= cfg.cooldown_after_loss_streak
            /\ pf.last_loss_time >= 0
            /\ t - pf.last_loss_time < cfg.cooldown_duration
        THEN "LossStreakCooldown"
    ELSE IF estimated_volatility > ExtremeVolatility
        THEN "ExtremeVolatility"
    ELSE IF size > cfg.max_position_size_usd
        THEN "PositionSizeTooLarge"
    ELSE "Ok"

validate_trade(cfg, pf, pos, size, estimated_volatility, t) ==
    IF Cardinality(DOMAIN pos) >= cfg.max_total_positions
        THEN "MaxPositionsReached"
    ELSE IF daily_pnl_pct_lt(pf, cfg.max_daily_drawdown_pct)
        THEN "DrawdownLimitExceeded"
    ELSE IF weekly_pnl_pct_lt(pf, cfg.max_weekly_drawdown_pct)
        THEN "DrawdownLimitExceeded"
    ELSE IF /\ pf.consecutive_losses >= cfg.cooldown_after_loss_streak
            /\ pf.last_loss_time >= 0
            /\ t - pf.last_loss_time < cfg.cooldown_duration
        THEN "LossStreakCooldown"
    ELSE IF estimated_volatility > ExtremeVolatility
        THEN "ExtremeVolatility"
    ELSE IF size > pf.available_capital
        THEN "InsufficientCapital"
    ELSE IF size > cfg.max_position_size_usd
        THEN "PositionSizeTooLarge"
    ELSE "Ok"

\* open_position, first statement: the portfolio is debited.
open_debit(pf, size) ==
    [pf EXCEPT !.available_capital = pf.available_capital - size]

\* open_position, second statement: HashMap::insert, which replaces an
\* entry already stored under the key.
open_insert(pos, symbol, entry_price, size, t) ==
    [s \in DOMAIN pos \cup {symbol} |->
        IF s = symbol THEN Position_new(symbol, entry_price, size, t) ELSE pos[s]]

\* Mutant: the trailing stop is not moved up to the new peak.
tick_position_StaleStop(cfg, p, price) == update_price(p, price)

\* update_positions, loop body for one position that has a price.
tick_position(cfg, p, price) ==
    update_trailing_stop(update_price(p, price), cfg.trailing_stop_loss_pct)

\* Mutant: the trailing stop is tested before the hard stop.
stop_reason_TrailingFirst(cfg, p, price) ==
    IF price * PctScale < p.trailing_stop
        THEN "trailing_stop"
    ELSE IF p.unrealized_pnl_pct < (0 - cfg.hard_stop_loss_pct) * BpPerPct
        THEN "hard_stop"
    ELSE "none"

\* update_positions, the if / else-if over the updated position.
stop_reason(cfg, p, price) ==
    IF p.unrealized_pnl_pct < (0 - cfg.hard_stop_loss_pct) * BpPerPct
        THEN "hard_stop"
    ELSE IF price * PctScale < p.trailing_stop
        THEN "trailing_stop"
    ELSE "none"

updated_positions(cfg, pos, prices) ==
    [s \in DOMAIN pos |->
        IF s \in DOMAIN prices THEN tick_position(cfg, pos[s], prices[s]) ELSE pos[s]]

\* The (symbol, reason) pairs update_positions pushes, as a set.
stops_triggered(cfg, pos, prices) ==
    { <<s, stop_reason(cfg, tick_position(cfg, pos[s], prices[s]), prices[s])>> :
        s \in { x \in DOMAIN pos \cap DOMAIN prices :
                  stop_reason(cfg, tick_position(cfg, pos[x], prices[x]), prices[x])
                     # "none" } }

\* The orders in which iter_mut() of the HashMap may visit the positions
\* that fired: every arrangement of the set in a Vec.
Arrangements(S) ==
    { q \in [1..Cardinality(S) -> S] : \A e \in S : \E i \in DOMAIN q : q[i] = e }

\* close_position, after the entry was removed from the map.
realized_pnl(p, exit_price) ==
    ((exit_price - p.entry_price) * p.size) \div p.entry_price

\* Mutant: a loss leaves the winning streak standing.
close_book_StreakKept(pf, p, exit_price, t) ==
    LET pnl == realized_pnl(p, exit_price)
        won == pnl > 0
        cur == pf.current_capital + pnl
    IN  [ pf EXCEPT
            !.available_capital  = pf.available_capital + p.size + pnl,
            !.current_capital    = cur,
            !.total_pnl          = pf.total_pnl + pnl,
            !.daily_pnl          = pf.daily_pnl + pnl,
            !.weekly_pnl         = pf.weekly_pnl + pnl,
            !.total_trades       = pf.total_trades + 1,
            !.winning_trades     = IF won THEN pf.winning_trades + 1 ELSE pf.winning_trades,
            !.losing_trades      = IF won THEN pf.losing_trades ELSE pf.losing_trades + 1,
            !.consecutive_wins   = IF won THEN pf.consecutive_wins + 1 ELSE pf.consecutive_wins,
            !.consecutive_losses = IF won THEN 0 ELSE pf.consecutive_losses + 1,
            !.last_loss_time     = IF won THEN pf.last_loss_time ELSE t,
            !.peak_capital       = IF cur > pf.peak_capital THEN cur ELSE pf.peak_capital ]

\* Mutant: a close at break-even is booked as a win.
close_book_BreakEvenWins(pf, p, exit_price, t) ==
    LET pnl == realized_pnl(p, exit_price)
        won == pnl >= 0
        cur == pf.current_capital + pnl
    IN  [ pf EXCEPT
            !.available_capital  = pf.available_capital + p.size + pnl,
            !.current_capital    = cur,
            !.total_pnl          = pf.total_pnl + pnl,
            !.daily_pnl          = pf.daily_pnl + pnl,
            !.weekly_pnl         = pf.weekly_pnl + pnl,
            !.total_trades       = pf.total_trades + 1,
            !.winning_trades     = IF won THEN pf.winning_trades + 1 ELSE pf.winning_trades,
            !.losing_trades      = IF won THEN pf.losing_trades ELSE pf.losing_trades + 1,
            !.consecutive_wins   = IF won THEN pf.consecutive_wins + 1 ELSE 0,
            !.consecutive_losses = IF won THEN 0 ELSE pf.consecutive_losses + 1,
            !.last_loss_time     = IF won THEN pf.last_loss_time ELSE t,
            !.peak_capital       = IF cur > pf.peak_capital THEN cur ELSE pf.peak_capital ]

close_book(pf, p, exit_price, t) ==
    LET pnl == realized_pnl(p, exit_price)
        won == pnl > 0
        cur == pf.current_capital + pnl
    IN  [ pf EXCEPT
            !.available_capital  = pf.available_capital + p.size + pnl,
            !.current_capital    = cur,
            !.total_pnl          = pf.total_pnl + pnl,
            !.daily_pnl          = pf.daily_pnl + pnl,
            !.weekly_pnl         = pf.weekly_pnl + pnl,
            !.total_trades       = pf.total_trades + 1,
            !.winning_trades     = IF won THEN pf.winning_trades + 1 ELSE pf.winning_trades,
            !.losing_trades      = IF won THEN pf.losing_trades ELSE pf.losing_trades + 1,
            !.consecutive_wins   = IF won THEN pf.consecutive_wins + 1 ELSE 0,
            !.consecutive_losses = IF won THEN 0 ELSE pf.consecutive_losses + 1,
            !.last_loss_time     = IF won THEN pf.last_loss_time ELSE t,
            !.peak_capital       = IF cur > pf.peak_capital THEN cur ELSE pf.peak_capital ]

close_remove(pos, symbol) == [s \in DOMAIN pos \ {symbol} |-> pos[s]]

----------------------------------------------------------------------------
(* Initial state: RiskManager::new, an empty database, idle tasks *)

NoCall ==
    [ op |-> "none", symbol |-> "", confidence |-> 0, size_usd |-> 0,
      price |-> 0, signature |-> 0, position_id |-> 0, failed_at |-> "",
      error |-> "", price_impact_bps |-> 0, attempts |-> 0,
      exit_reason |-> "", position |-> << >>, realized_pnl |-> 0 ]

\* A call's record: the operation, its arguments (size, confidence and
\* volatility, where it takes them) and what it returned.
NoRet ==
    [ op |-> "none", result |-> "", stops |-> << >>, pnl |-> 0,
      size |-> 0, confidence |-> 0, volatility |-> 0 ]

NoPositions == [s \in {} |-> 0]

\* The feature task waiting in tick_rx.recv(), with no tick in hand.
NoFt ==
    [ pc |-> "recv", no |-> 0, features |-> << >>, embedding |-> 0, score |-> 0,
      similar |-> << >>, query |-> "", confidence |-> 0 ]

\* The ingestion task before connect_async, with no frame read.
NoWs == [pc |-> "connect", ticks_received |-> 0, skipped |-> 0]

\* main up to the spawn of its tasks: FeatureBuffer::new(opt.window_size),
\* two empty channels, an empty collection.
PipelineInitWith(window_size, threshold) ==
    /\ opt = [window_size |-> window_size, threshold |-> threshold]
    /\ data = << >>
    /\ received = 0
    /\ ft = NoFt
    /\ tensors = 0
    /\ signal_ch = << >>
    /\ executed = [count |-> 0, last |-> 0]
    /\ vs_calls = [find_similar |-> 0, insert_pattern |-> 0]
    /\ patterns = 0
    /\ ws = NoWs
    /\ tick_ch = << >>

\* CandleBuilder::new(interval_ms, max_candles)
CandleBuilder_new(interval_ms, max_candles) ==
    [ interval_ms       |-> interval_ms,
      current_candle    |-> << >>,
      completed_candles |-> << >>,
      max_candles       |-> max_candles ]

\* A CandleBuilder just constructed, before any trade.
CandleInitWith(interval_ms, max_candles) ==
    /\ builder = CandleBuilder_new(interval_ms, max_candles)
    /\ instant = 0
    /\ added = 0

InitWith(cfg) ==
    /\ config = cfg
    /\ portfolio = Portfolio_new(StartingCapital, 0)
    /\ positions = NoPositions
    /\ now = 0
    /\ rm_lock = NoOne
    /\ ret = NoRet
    /\ current_prices = NoPositions
    /\ ticks = 0
    /\ ops = 0
    /\ pc = [w \in Workers |-> "idle"]
    /\ call = [w \in Workers |-> NoCall]
    /\ calls = 0
    /\ db_positions = << >>
    /\ db_trades = << >>
    /\ chain = 0
    /\ shutdown = FALSE
    /\ PipelineInitWith(0, 0)
    /\ CandleInitWith(0, 0)

\* The position limits the engine's RiskManager may be constructed with.
EngineConfigs ==
    { [DefaultConfig EXCEPT !.max_total_positions = n] : n \in {1, 5} }

Init == \E cfg \in EngineConfigs : InitWith(cfg)

RiskInit == \E cfg \in Configs : InitWith(cfg)

\* The price maps a caller may hand to update_positions.
PriceMaps == UNION { [S -> Prices] : S \in SUBSET Symbols }
EnginePriceMaps == [EngineSymbols -> EnginePrices]

----------------------------------------------------------------------------
(* Direct calls of the RiskManager's operations by one caller *)

\* update_positions(&mut self, current_prices)
UpdatePositionsCall(prices, order) ==
    /\ positions' = updated_positions(config, positions, prices)
    /\ ret' = [NoRet EXCEPT !.op = "update_positions", !.result = "Ok", !.stops = order]
    /\ current_prices' = prices
    /\ ticks' = ticks + 1
    /\ UNCHANGED <<config, portfolio, now, shutdown, pipeline_vars, candle_vars, rm_lock>>

\* open_position(&mut self, symbol, entry_price, size)
RiskOpen(symbol, entry_price, size) ==
    /\ ops < MaxOps
    /\ portfolio' = open_debit(portfolio, size)
    /\ positions' = open_insert(positions, symbol, entry_price, size, now)
    /\ ret' = [NoRet EXCEPT !.op = "open_position", !.result = "Ok", !.size = size]
    /\ ops' = ops + 1
    /\ UNCHANGED <<config, now, shutdown, pipeline_vars, candle_vars, rm_lock, current_prices, ticks>>
    /\ UNCHANGED engine_vars

RiskUpdate ==
    /\ ops < MaxOps
    /\ \E m \in PriceMaps :
          \E o \in Arrangements(stops_triggered(config, positions, m)) :
             UpdatePositionsCall(m, o)
    /\ ops' = ops + 1
    /\ UNCHANGED engine_vars

\* close_position(&mut self, symbol, exit_price, reason), position found
RiskClose(symbol, exit_price) ==
    /\ ops < MaxOps
    /\ symbol \in DOMAIN positions
    /\ positions' = close_remove(positions, symbol)
    /\ portfolio' = close_book(portfolio, positions[symbol], exit_price, now)
    /\ ret' = [NoRet EXCEPT !.op = "close_position", !.result = "Ok",
                            !.pnl = realized_pnl(positions[symbol], exit_price)]
    /\ ops' = ops + 1
    /\ UNCHANGED <<config, now, shutdown, pipeline_vars, candle_vars, rm_lock, current_prices, ticks>>
    /\ UNCHANGED engine_vars

\* Mutant: a close that finds no position books a trade with no pnl.
RiskCloseMissing_BooksTrade(symbol) ==
    /\ ops < MaxOps
    /\ symbol \notin DOMAIN positions
    /\ portfolio' = [portfolio EXCEPT !.total_trades = @ + 1,
                                      !.losing_trades = @ + 1,
                                      !.consecutive_losses = @ + 1,
                                      !.consecutive_wins = 0,
                                      !.last_loss_time = now]
    /\ ret' = [NoRet EXCEPT !.op = "close_position", !.result = "PositionNotFound"]
    /\ ops' = ops + 1
    /\ UNCHANGED <<config, positions, now, shutdown, pipeline_vars, candle_vars, rm_lock, current_prices, ticks>>
    /\ UNCHANGED engine_vars

\* close_position, "Position not found"
RiskCloseMissing(symbol) ==
    /\ ops < MaxOps
    /\ symbol \notin DOMAIN positions
    /\ ret' = [NoRet EXCEPT !.op = "close_position", !.result = "PositionNotFound"]
    /\ ops' = ops + 1
    /\ UNCHANGED <<config, portfolio, positions, now, shutdown, pipeline_vars, candle_vars, rm_lock, current_prices, ticks>>
    /\ UNCHANGED engine_vars

RiskNext ==
    \/ \E s \in Symbols, e \in EntryPrices, z \in Sizes : RiskOpen(s, e, z)
    \/ RiskUpdate
    \/ \E s \in Symbols, x \in ExitPrices : RiskClose(s, x)
    \/ \E s \in Symbols : RiskCloseMissing(s)

RiskSpec == RiskInit /\ [][RiskNext]_vars

----------------------------------------------------------------------------
(* The trade-admission policy: sizing, validation, the clock and the       *)
(* day / week anchors, called directly by one caller that validates a      *)
(* trade before it opens it, as execute_buy does.                          *)

\* The limits a RiskManager of this specification may be constructed with.
PolicyConfigs ==
    { [DefaultConfig EXCEPT !.max_position_size_usd = m,
                            !.max_total_positions = 1,
                            !.cooldown_after_loss_streak = 2] : m \in {1000, 5000} }

PolicyInit == \E cfg \in PolicyConfigs : InitWith(cfg)

PolicyUnchanged ==
    /\ UNCHANGED <<config, rm_lock, current_prices, ticks>>
    /\ UNCHANGED engine_vars

\* calculate_position_size(&self, signal, estimated_volatility)
CalculatePositionSize(conf, vol) ==
    /\ ret' = [NoRet EXCEPT !.op = "calculate_position_size", !.result = "Ok",
                            !.size = calculate_position_size(config, portfolio, conf, vol),
                            !.confidence = conf, !.volatility = vol]
    /\ UNCHANGED <<portfolio, positions, now, shutdown, pipeline_vars, candle_vars, ops>>
    /\ PolicyUnchanged

\* validate_trade(&self, signal, size, estimated_volatility)
ValidateTrade(size, vol) ==
    /\ ret' = [NoRet EXCEPT !.op = "validate_trade",
                            !.result = validate_trade(config, portfolio, positions,
                                                      size, vol, now),
                            !.size = size, !.volatility = vol]
    /\ UNCHANGED <<portfolio, positions, now, shutdown, pipeline_vars, candle_vars, ops>>
    /\ PolicyUnchanged

\* open_position, called for a trade that validate_trade has just accepted.
ValidatedOpen(symbol, entry_price, size) ==
    /\ ops < MaxPolicyOps
    /\ validate_trade(config, portfolio, positions, size, BuyVolatility, now) = "Ok"
    /\ portfolio' = open_debit(portfolio, size)
    /\ positions' = open_insert(positions, symbol, entry_price, size, now)
    /\ ret' = [NoRet EXCEPT !.op = "open_position", !.result = "Ok", !.size = size]
    /\ ops' = ops + 1
    /\ UNCHANGED <<now, shutdown, pipeline_vars, candle_vars>>
    /\ PolicyUnchanged

\* close_position, position found
PolicyClose(symbol, exit_price) ==
    /\ ops < MaxPolicyOps
    /\ symbol \in DOMAIN positions
    /\ positions' = close_remove(positions, symbol)
    /\ portfolio' = close_book(portfolio, positions[symbol], exit_price, now)
    /\ ret' = [NoRet EXCEPT !.op = "close_position", !.result = "Ok",
                            !.pnl = realized_pnl(positions[symbol], exit_price)]
    /\ ops' = ops + 1
    /\ UNCHANGED <<now, shutdown, pipeline_vars, candle_vars>>
    /\ PolicyUnchanged

\* portfolio.reset_daily()
ResetDaily ==
    /\ ops < MaxPolicyOps
    /\ portfolio' = reset_daily(portfolio, now)
    /\ ret' = [NoRet EXCEPT !.op = "reset_daily", !.result = "Ok"]
    /\ ops' = ops + 1
    /\ UNCHANGED <<positions, now, shutdown, pipeline_vars, candle_vars>>
    /\ PolicyUnchanged

\* portfolio.reset_weekly()
ResetWeekly ==
    /\ ops < MaxPolicyOps
    /\ portfolio' = reset_weekly(portfolio, now)
    /\ ret' = [NoRet EXCEPT !.op = "reset_weekly", !.result = "Ok"]
    /\ ops' = ops + 1
    /\ UNCHANGED <<positions, now, shutdown, pipeline_vars, candle_vars>>
    /\ PolicyUnchanged

\* Time passes between two calls: Instant::now() moves on.
Elapse(d) ==
    /\ ops < MaxPolicyOps
    /\ now' = now + d
    /\ ops' = ops + 1
    /\ UNCHANGED <<portfolio, positions, ret, shutdown, pipeline_vars, candle_vars>>
    /\ PolicyUnchanged

PolicyNext ==
    \/ \E c \in SizingConfidences, v \in SizingVolatilities : CalculatePositionSize(c, v)
    \/ \E z \in ProposedSizes, v \in ValidateVolatilities : ValidateTrade(z, v)
    \/ \E s \in PolicySymbols, e \in EntryPrices, z \in PolicySizes : ValidatedOpen(s, e, z)
    \/ \E s \in PolicySymbols, x \in PolicyExitPrices : PolicyClose(s, x)
    \/ ResetDaily
    \/ ResetWeekly
    \/ \E d \in Delays : Elapse(d)

PolicySpec == PolicyInit /\ [][PolicyNext]_vars

----------------------------------------------------------------------------
(* The same caller with positions large enough, and enough of them allowed, *)
(* to use up the capital: every open is validated first, every close is at  *)
(* a price of zero or more.                                                 *)

CapitalSizes == {2500, 4000}
CapitalExitPrices == {0, 100, 120}

CapitalConfigs == { [DefaultConfig EXCEPT !.max_position_size_usd = 5000] }

CapitalInit == \E cfg \in CapitalConfigs : InitWith(cfg)

CapitalNext ==
    \/ \E s \in Symbols, e \in EntryPrices, z \in CapitalSizes : ValidatedOpen(s, e, z)
    \/ \E s \in Symbols, x \in CapitalExitPrices : PolicyClose(s, x)

CapitalSpec == CapitalInit /\ [][CapitalNext]_vars

----------------------------------------------------------------------------
(* ExecutionEngine: execute_buy and execute_sell, one step per operation   *)
(* on a shared resource or external service.  Each task runs one call at   *)
(* a time; the tasks run in parallel.                                      *)

\* Mutant: a lock that is handed out while it is held.
MutexFree_NoExclusion == TRUE

\* tokio::sync::Mutex: lock().await completes only when nobody holds it.
MutexFree == rm_lock = NoOne

\* A task that has returned, or was dropped with the runtime.
Finished(w) == pc[w] \in {"idle", "ok", "err", "cancelled"}

\* A step of task w that touches neither the RiskManager nor the database.
Local(w, next_pc, locals) ==
    /\ pc' = [pc EXCEPT ![w] = next_pc]
    /\ call' = [call EXCEPT ![w] = locals]
    /\ UNCHANGED <<rm_vars, now, shutdown, pipeline_vars, candle_vars, rm_lock, ret, current_prices, ticks, ops, calls,
                   db_positions, db_trades, chain>>

\* What is left of a call that returned Err: its arguments, the error and
\* the number of times it called send_and_confirm_transaction.
Failed(c, stage) ==
    [NoCall EXCEPT !.op = c.op, !.symbol = c.symbol, !.confidence = c.confidence,
                   !.exit_reason = c.exit_reason, !.failed_at = stage,
                   !.attempts = c.attempts]

\* What is left of a call that returned Ok: its arguments and the
\* ExecutionResult (signature, entry_price, size_usd, position_id).
Returned(c) ==
    [NoCall EXCEPT !.op = c.op, !.symbol = c.symbol, !.confidence = c.confidence,
                   !.exit_reason = c.exit_reason, !.signature = c.signature,
                   !.price = c.price, !.size_usd = c.size_usd,
                   !.position_id = c.position_id]

\* An early return through `?`: the error is reported and a MutexGuard the
\* call still owns is dropped.
Fail(w, stage) ==
    /\ pc' = [pc EXCEPT ![w] = "err"]
    /\ call' = [call EXCEPT ![w] = Failed(call[w], stage)]
    /\ rm_lock' = IF rm_lock = w THEN NoOne ELSE rm_lock
    /\ UNCHANGED <<rm_vars, now, shutdown, pipeline_vars, candle_vars, ret, current_prices, ticks, ops, calls,
                   db_positions, db_trades, chain>>

\* execute_buy(signal, symbol, mint_address) is called.
StartBuy(w, symbol, conf) ==
    /\ ~shutdown
    /\ Finished(w)
    /\ calls < MaxCalls
    /\ calls' = calls + 1
    /\ pc' = [pc EXCEPT ![w] = "b_lock"]
    /\ call' = [call EXCEPT ![w] =
                  [NoCall EXCEPT !.op = "buy", !.symbol = symbol, !.confidence = conf]]
    /\ UNCHANGED <<rm_vars, now, shutdown, pipeline_vars, candle_vars, rm_lock, ret, current_prices, ticks, ops,
                   db_positions, db_trades, chain>>

\* let mut rm = self.risk_manager.lock().await
BuyLock(w) ==
    /\ pc[w] = "b_lock"
    /\ MutexFree
    /\ rm_lock' = w
    /\ pc' = [pc EXCEPT ![w] = "b_risk"]
    /\ UNCHANGED <<rm_vars, now, shutdown, pipeline_vars, candle_vars, ret, current_prices, ticks, ops, call, calls,
                   db_positions, db_trades, chain>>

\* calculate_position_size, then validate_trade
BuyRisk(w) ==
    /\ pc[w] = "b_risk"
    /\ LET size == calculate_position_size(config, portfolio, call[w].confidence,
                                           BuyVolatility)
           verdict == validate_trade(config, portfolio, positions, size,
                                     BuyVolatility, now)
       IN  IF verdict = "Ok"
           THEN /\ pc' = [pc EXCEPT ![w] = "b_balance"]
                /\ call' = [call EXCEPT ![w].size_usd = size]
                /\ UNCHANGED rm_lock
           ELSE /\ pc' = [pc EXCEPT ![w] = "err"]
                /\ call' = [call EXCEPT ![w] =
                              [Failed(call[w], "validate") EXCEPT !.error = verdict]]
                /\ rm_lock' = NoOne
    /\ UNCHANGED <<rm_vars, now, shutdown, pipeline_vars, candle_vars, ret, current_prices, ticks, ops, calls,
                   db_positions, db_trades, chain>>

\* ExecutionConfig::default()
max_slippage_bps == 50
max_price_impact_bps == 100

\* QuoteRequest::new(..).slippage_bps(self.config.max_slippage_bps): the
\* slippage cap every quote is requested with.
slippage_bps == max_slippage_bps

\* self.get_sol_balance().await?
BuyBalance(w) ==
    /\ pc[w] = "b_balance"
    /\ \/ Local(w, "b_quote", call[w])
       \/ Fail(w, "balance")

\* self.jupiter.get_quote(&quote_req).await
BuyQuote(w) ==
    /\ pc[w] = "b_quote"
    /\ \/ \E p \in BuyQuotePrices, i \in PriceImpacts :
             Local(w, "b_build", [call[w] EXCEPT !.price = p, !.price_impact_bps = i])
       \/ Fail(w, "quote")

\* self.jupiter.get_swap_transaction(&swap_req).await
BuyBuild(w) ==
    /\ pc[w] = "b_build"
    /\ \/ Local(w, "b_submit", call[w])
       \/ Fail(w, "build")

\* What a call that fails inside sign_and_send_transaction leaves.
SubmitFailed(w, c, stage) ==
    /\ pc' = [pc EXCEPT ![w] = "err"]
    /\ call' = [call EXCEPT ![w] = Failed(c, stage)]
    /\ rm_lock' = IF rm_lock = w THEN NoOne ELSE rm_lock
    /\ UNCHANGED <<rm_vars, now, shutdown, pipeline_vars, candle_vars, ret, current_prices, ticks, ops, calls,
                   db_positions, db_trades, chain>>

\* sign_and_send_transaction signs the transaction and calls
\* send_and_confirm_transaction once: the node accepts the transaction, or
\* the call returns the error.
Sent(c) == [c EXCEPT !.attempts = c.attempts + 1]

\* sign_and_send_transaction: send_and_confirm_transaction returns the
\* signature of a confirmed transaction, or an error.
Confirmed(w, next_pc) ==
    /\ chain' = chain + 1
    /\ pc' = [pc EXCEPT ![w] = next_pc]
    /\ call' = [call EXCEPT ![w].signature = chain + 1]
    /\ UNCHANGED <<rm_vars, now, shutdown, pipeline_vars, candle_vars, rm_lock, ret, current_prices, ticks, ops, calls,
                   db_positions, db_trades>>

\* Mutant: the submission's error is dropped and the call goes on to open.
BuyConfirm_IgnoringFailure(w) ==
    /\ pc[w] = "b_confirm"
    /\ \/ Confirmed(w, "b_open")
       \/ Local(w, "b_open", call[w])

\* self.sign_and_send_transaction(&swap_response.swap_transaction).await?:
\* the transaction is sent
BuySubmit(w) ==
    /\ pc[w] = "b_submit"
    /\ \/ Local(w, "b_confirm", Sent(call[w]))
       \/ SubmitFailed(w, Sent(call[w]), "submit")

\* ... and send_and_confirm_transaction waits for its confirmation
BuyConfirm(w) ==
    /\ pc[w] = "b_confirm"
    /\ \/ Confirmed(w, "b_open")
       \/ Fail(w, "confirm")

\* rm.open_position(...): self.portfolio.available_capital -= size
BuyOpenDebit(w) ==
    /\ pc[w] = "b_open"
    /\ portfolio' = open_debit(portfolio, call[w].size_usd)
    /\ pc' = [pc EXCEPT ![w] = "b_open_insert"]
    /\ UNCHANGED <<config, positions, now, shutdown, pipeline_vars, candle_vars, rm_lock, ret, current_prices, ticks, ops,
                   call, calls, db_positions, db_trades, chain>>

\* rm.open_position(...): self.positions.insert(...); then drop(rm)
BuyOpenInsert(w) ==
    /\ pc[w] = "b_open_insert"
    /\ positions' = open_insert(positions, call[w].symbol, call[w].price,
                                call[w].size_usd, now)
    /\ rm_lock' = NoOne
    /\ pc' = [pc EXCEPT ![w] = "b_db_position"]
    /\ UNCHANGED <<config, portfolio, now, shutdown, pipeline_vars, candle_vars, ret, current_prices, ticks, ops,
                   call, calls, db_positions, db_trades, chain>>

\* The row insert_position writes; its id is the row's index.
PositionRow(symbol, entry_price, size_usd) ==
    [ symbol        |-> symbol,
      entry_price   |-> entry_price,
      size_usd      |-> size_usd,
      status        |-> "open",
      trailing_stop |-> entry_price * InitialTrailFactor,
      exit_price    |-> 0,
      realized_pnl  |-> 0,
      exit_reason   |-> "" ]

\* Mutant: the trade is written without its position.
BuyTradeRow_Unlinked(c) ==
    [ position_id |-> 0,
      trade_type  |-> "buy",
      symbol      |-> c.symbol,
      price       |-> c.price,
      signature   |-> c.signature ]

\* The row insert_trade writes for a buy.
BuyTradeRow(c) ==
    [ position_id |-> c.position_id,
      trade_type  |-> "buy",
      symbol      |-> c.symbol,
      price       |-> c.price,
      signature   |-> c.signature ]

\* self.database.insert_position(&position_record)?
BuyDbPosition(w) ==
    /\ pc[w] = "b_db_position"
    /\ \/ /\ db_positions' = Append(db_positions,
                 PositionRow(call[w].symbol, call[w].price, call[w].size_usd))
          /\ call' = [call EXCEPT ![w].position_id = Len(db_positions) + 1]
          /\ pc' = [pc EXCEPT ![w] = "b_db_trade"]
          /\ UNCHANGED <<rm_vars, now, shutdown, pipeline_vars, candle_vars, rm_lock, ret, current_prices, ticks, ops, calls,
                         db_trades, chain>>
       \/ Fail(w, "db_position")

\* self.database.insert_trade(&trade_record)?; Ok(ExecutionResult {..})
BuyDbTrade(w) ==
    /\ pc[w] = "b_db_trade"
    /\ \/ /\ db_trades' = Append(db_trades, BuyTradeRow(call[w]))
          /\ pc' = [pc EXCEPT ![w] = "ok"]
          /\ call' = [call EXCEPT ![w] = Returned(call[w])]
          /\ UNCHANGED <<rm_vars, now, shutdown, pipeline_vars, candle_vars, rm_lock, ret, current_prices, ticks, ops,
                         calls, db_positions, chain>>
       \/ Fail(w, "db_trade")

\* execute_sell(position_id, symbol, mint_address, sell_amount, exit_reason)
\* is called for a position row that reads open.
StartSell(w, id, reason) ==
    /\ ~shutdown
    /\ Finished(w)
    /\ calls < MaxCalls
    /\ id \in DOMAIN db_positions
    /\ db_positions[id].status = "open"
    /\ calls' = calls + 1
    /\ pc' = [pc EXCEPT ![w] = "s_quote"]
    /\ call' = [call EXCEPT ![w] =
                  [NoCall EXCEPT !.op = "sell", !.symbol = db_positions[id].symbol,
                                 !.position_id = id, !.exit_reason = reason]]
    /\ UNCHANGED <<rm_vars, now, shutdown, pipeline_vars, candle_vars, rm_lock, ret, current_prices, ticks, ops,
                   db_positions, db_trades, chain>>

SellQuote(w) ==
    /\ pc[w] = "s_quote"
    /\ \/ \E p \in SellQuotePrices, i \in SellPriceImpacts :
             Local(w, "s_build", [call[w] EXCEPT !.price = p, !.price_impact_bps = i])
       \/ Fail(w, "quote")

SellBuild(w) ==
    /\ pc[w] = "s_build"
    /\ \/ Local(w, "s_submit", call[w])
       \/ Fail(w, "build")

\* Mutant: the sell goes on to close although no confirmation was seen.
SellConfirm_IgnoringFailure(w) ==
    /\ pc[w] = "s_confirm"
    /\ \/ Confirmed(w, "s_lock")
       \/ Local(w, "s_lock", call[w])

SellSubmit(w) ==
    /\ pc[w] = "s_submit"
    /\ \/ Local(w, "s_confirm", Sent(call[w]))
       \/ SubmitFailed(w, Sent(call[w]), "submit")

\* The submitted sell is outstanding until send_and_confirm_transaction
\* returns.
SellConfirm(w) ==
    /\ pc[w] = "s_confirm"
    /\ \/ Confirmed(w, "s_lock")
       \/ Fail(w, "confirm")

\* let mut rm = self.risk_manager.lock().await
SellLock(w) ==
    /\ pc[w] = "s_lock"
    /\ MutexFree
    /\ rm_lock' = w
    /\ pc' = [pc EXCEPT ![w] = "s_close"]
    /\ UNCHANGED <<rm_vars, now, shutdown, pipeline_vars, candle_vars, ret, current_prices, ticks, ops, call, calls,
                   db_positions, db_trades, chain>>

\* rm.close_position(...): self.positions.remove(symbol).ok_or_else(..)?
SellCloseRemove(w) ==
    /\ pc[w] = "s_close"
    /\ IF call[w].symbol \in DOMAIN positions
       THEN /\ positions' = close_remove(positions, call[w].symbol)
            /\ call' = [call EXCEPT ![w].position = positions[call[w].symbol]]
            /\ pc' = [pc EXCEPT ![w] = "s_close_book"]
            /\ UNCHANGED rm_lock
       ELSE /\ pc' = [pc EXCEPT ![w] = "err"]
            /\ call' = [call EXCEPT ![w] = Failed(call[w], "close")]
            /\ rm_lock' = NoOne
            /\ UNCHANGED positions
    /\ UNCHANGED <<config, portfolio, now, shutdown, pipeline_vars, candle_vars, ret, current_prices, ticks, ops, calls,
                   db_positions, db_trades, chain>>

\* rm.close_position(...): the portfolio is updated; then drop(rm)
SellCloseBook(w) ==
    /\ pc[w] = "s_close_book"
    /\ portfolio' = close_book(portfolio, call[w].position, call[w].price, now)
    /\ call' = [call EXCEPT ![w].realized_pnl =
                                 realized_pnl(call[w].position, call[w].price)]
    /\ rm_lock' = NoOne
    /\ pc' = [pc EXCEPT ![w] = "s_db_close"]
    /\ UNCHANGED <<config, positions, now, shutdown, pipeline_vars, candle_vars, ret, current_prices, ticks, ops, calls,
                   db_positions, db_trades, chain>>

\* Database::close_position: UPDATE positions SET status = 'closed', ...
\* WHERE id = ?
ClosedRow(row, exit_price, pnl, reason) ==
    [ row EXCEPT !.status = "closed", !.exit_price = exit_price,
                 !.realized_pnl = pnl, !.exit_reason = reason ]

db_close_position(rows, id, exit_price, pnl, reason) ==
    [ i \in DOMAIN rows |->
        IF i = id THEN ClosedRow(rows[i], exit_price, pnl, reason) ELSE rows[i] ]

\* The row insert_trade writes for a sell.
SellTradeRow(c) ==
    [ position_id |-> c.position_id,
      trade_type  |-> "sell",
      symbol      |-> c.symbol,
      price       |-> c.price,
      signature   |-> c.signature ]

\* self.database.close_position(position_id, ...)?
SellDbClose(w) ==
    /\ pc[w] = "s_db_close"
    /\ \/ /\ db_positions' = db_close_position(db_positions, call[w].position_id,
                 call[w].price, call[w].realized_pnl, call[w].exit_reason)
          /\ pc' = [pc EXCEPT ![w] = "s_db_trade"]
          /\ UNCHANGED <<rm_vars, now, shutdown, pipeline_vars, candle_vars, rm_lock, ret, current_prices, ticks, ops, call,
                         calls, db_trades, chain>>
       \/ Fail(w, "db_close")

\* self.database.insert_trade(&trade_record)?; Ok(ExecutionResult {..})
SellDbTrade(w) ==
    /\ pc[w] = "s_db_trade"
    /\ \/ /\ db_trades' = Append(db_trades, SellTradeRow(call[w]))
          /\ pc' = [pc EXCEPT ![w] = "ok"]
          /\ call' = [call EXCEPT ![w] = Returned(call[w])]
          /\ UNCHANGED <<rm_vars, now, shutdown, pipeline_vars, candle_vars, rm_lock, ret, current_prices, ticks, ops,
                         calls, db_positions, chain>>
       \/ Fail(w, "db_trade")

\* A caller that holds the RiskManager lock applies a tick's prices.
EngineTick ==
    /\ ticks < MaxTicks
    /\ MutexFree
    /\ \E m \in EnginePriceMaps :
          \E o \in Arrangements(stops_triggered(config, positions, m)) :
             UpdatePositionsCall(m, o)
    /\ UNCHANGED ops
    /\ UNCHANGED engine_vars

\* Where a task is suspended and gives control back to the runtime.
YieldPcs == {"b_lock", "b_quote", "b_build", "s_quote", "s_build", "s_lock"}

\* tokio::signal::ctrl_c().await returns and main returns Ok(()): the runtime
\* is dropped and no further call is made.
Shutdown ==
    /\ ~shutdown
    /\ shutdown' = TRUE
    /\ UNCHANGED <<rm_vars, now, pipeline_vars, candle_vars, rm_lock, ret, current_prices, ticks, ops,
                   pc, call, calls, db_positions, db_trades, chain>>

\* The runtime drops a task where it is suspended; a MutexGuard the task
\* owns is dropped with it.
Cancel(w) ==
    /\ shutdown
    /\ pc[w] \in YieldPcs
    /\ pc' = [pc EXCEPT ![w] = "cancelled"]
    /\ call' = [call EXCEPT ![w] = [Failed(call[w], "cancelled") EXCEPT
                                       !.signature = call[w].signature]]
    /\ rm_lock' = IF rm_lock = w THEN NoOne ELSE rm_lock
    /\ UNCHANGED <<rm_vars, now, shutdown, pipeline_vars, candle_vars, ret, current_prices, ticks, ops, calls,
                   db_positions, db_trades, chain>>

Next ==
    \/ \E w \in Workers, s \in EngineSymbols, c \in Confidences : StartBuy(w, s, c)
    \/ \E w \in Workers : BuyLock(w)
    \/ \E w \in Workers : BuyRisk(w)
    \/ \E w \in Workers : BuyBalance(w)
    \/ \E w \in Workers : BuyQuote(w)
    \/ \E w \in Workers : BuyBuild(w)
    \/ \E w \in Workers : BuySubmit(w)
    \/ \E w \in Workers : BuyConfirm(w)
    \/ \E w \in Workers : BuyOpenDebit(w)
    \/ \E w \in Workers : BuyOpenInsert(w)
    \/ \E w \in Workers : BuyDbPosition(w)
    \/ \E w \in Workers : BuyDbTrade(w)
    \/ \E w \in Workers, id \in DOMAIN db_positions, r \in ExitReasons : StartSell(w, id, r)
    \/ \E w \in Workers : SellQuote(w)
    \/ \E w \in Workers : SellBuild(w)
    \/ \E w \in Workers : SellSubmit(w)
    \/ \E w \in Workers : SellConfirm(w)
    \/ \E w \in Workers : SellLock(w)
    \/ \E w \in Workers : SellCloseRemove(w)
    \/ \E w \in Workers : SellCloseBook(w)
    \/ \E w \in Workers : SellDbClose(w)
    \/ \E w \in Workers : SellDbTrade(w)
    \/ EngineTick
    \/ Shutdown
    \/ \E w \in Workers : Cancel(w)

Spec == Init /\ [][Next]_vars

----------------------------------------------------------------------------
(* The signal pipeline: feature buffer, inference, retrieval, signal channel *)

MaxWindow == 3
MaxReceived == 4
MaxSkipped == 1
WindowSizes == 0..MaxWindow            \* --window-size
ConfidenceScale == 10000               \* a confidence of 1.0
SimilarityScale == 100                 \* a similarity or an anomaly score of 1.0
Thresholds == {9500}                   \* --threshold, on the confidence scale
\* The ticks of the stream: price and volume (f64).
TickInputs ==
    { [price |-> 100, volume |-> 1], [price |-> 101, volume |-> 1],
      [price |-> 102, volume |-> 2], [price |-> 16777217, volume |-> 1] }
\* The mean squared errors predict returns.
AnomalyScores == {0, 50, 150}
\* The scores of the points find_similar returns.
NeighborLists == { << >>, <<80>>, <<100, 90>>, <<-50, 20>>, <<150>> }

\* `x as f32`: the value is rounded to 24 significant bits, ties to even.
F32Significand == 16777216

RECURSIVE f32_ulp(_)
f32_ulp(x) == IF x < F32Significand THEN 1 ELSE 2 * f32_ulp(x \div 2)

round_to(x, u) ==
    LET q == x \div u
        r == x % u
    IN  IF 2 * r < u THEN q * u
        ELSE IF 2 * r > u THEN (q + 1) * u
        ELSE IF q % 2 = 0 THEN q * u ELSE (q + 1) * u

as_f32(x) == IF x < 0 THEN 0 - round_to(0 - x, f32_ulp(0 - x))
             ELSE round_to(x, f32_ulp(x))

\* Mutant: the oldest tick is kept when the window is full.
push_NoEviction(d, tick, window_size) == Append(d, tick)

\* FeatureBuffer::push
push(d, tick, window_size) ==
    LET appended == Append(d, tick)
    IN  IF Len(appended) > window_size THEN Tail(appended) ELSE appended

\* Mutant: the buffer reports ready one tick early.
is_ready_OneEarly(d, window_size) == Len(d) + 1 >= window_size

\* FeatureBuffer::is_ready
is_ready(d, window_size) == Len(d) = window_size

\* FeatureBuffer::extract_features: a tensor of shape (1, window_size, 3),
\* zero where no tick is written.
extract_features(d, window_size) ==
    [ i \in 1..window_size |->
        IF i <= Len(d)
        THEN LET price == as_f32(d[i].price)
                 volume == as_f32(d[i].volume)
                 diff == IF i > 1 THEN price - as_f32(d[i - 1].price) ELSE 0
             IN  <<price, diff, volume>>
        ELSE <<0, 0, 0>> ]

RECURSIVE SumOfScores(_)
SumOfScores(scores) ==
    IF scores = << >> THEN 0 ELSE Head(scores) + SumOfScores(Tail(scores))

\* Mutant: the product is returned as it is.
analyze_pattern_Unclamped(similar, score) ==
    LET anomaly_factor == Max(SimilarityScale - score, 0)
    IN  IF similar = << >> THEN 0
        ELSE (SumOfScores(similar) * anomaly_factor) \div Len(similar)

\* types::analyze_pattern: the confidence of the Signal it returns.  avg_sim
\* and anomaly_factor are on the similarity scale, their product on the
\* confidence scale.
analyze_pattern(similar, score) ==
    LET anomaly_factor == Max(SimilarityScale - score, 0)
        product == IF similar = << >> THEN 0
                   ELSE (SumOfScores(similar) * anomaly_factor) \div Len(similar)
    IN  Max(0, Min(product, ConfidenceScale))

\* Mutant: a confidence equal to the threshold is forwarded.
above_threshold_OrEqual(confidence, threshold) == confidence >= threshold

\* signal.confidence > opt.threshold
above_threshold(confidence, threshold) == confidence > threshold

PipelineInit ==
    /\ \E w \in WindowSizes, t \in Thresholds : PipelineInitWith(w, t)
    /\ config = DefaultConfig
    /\ portfolio = Portfolio_new(StartingCapital, 0)
    /\ positions = NoPositions
    /\ now = 0
    /\ rm_lock = NoOne
    /\ ret = NoRet
    /\ current_prices = NoPositions
    /\ ticks = 0
    /\ ops = 0
    /\ pc = [w \in Workers |-> "idle"]
    /\ call = [w \in Workers |-> NoCall]
    /\ calls = 0
    /\ db_positions = << >>
    /\ db_trades = << >>
    /\ chain = 0
    /\ shutdown = FALSE
    /\ CandleInitWith(0, 0)

\* The messages read.next().await may yield: a text frame that decodes as a
\* tick, a text frame that does not, a frame that is not text, an error, or
\* the end of the stream.
TickMessages == { [kind |-> "tick", tick |-> t] : t \in TickInputs }
Messages ==
    TickMessages
        \cup { [kind |-> k, tick |-> << >>] : k \in {"garbage", "binary", "error", "none"} }

\* connect_async(&url).await?
WsConnect ==
    /\ ws.pc = "connect"
    /\ \/ ws' = [ws EXCEPT !.pc = "subscribe"]
       \/ ws' = [ws EXCEPT !.pc = "ended"]
    /\ UNCHANGED <<opt, data, received, ft, tensors, signal_ch, executed, vs_calls,
                   patterns, tick_ch, trading_vars, candle_vars>>

\* write.send(Message::Text(subscribe.to_string())).await?
WsSubscribe ==
    /\ ws.pc = "subscribe"
    /\ \/ ws' = [ws EXCEPT !.pc = "read"]
       \/ ws' = [ws EXCEPT !.pc = "ended"]
    /\ UNCHANGED <<opt, data, received, ft, tensors, signal_ch, executed, vs_calls,
                   patterns, tick_ch, trading_vars, candle_vars>>

\* Mutant: a text frame that does not decode ends the stream.
WsRead_StopsOnGarbage(msg) ==
    /\ ws.pc = "read"
    /\ CASE msg.kind = "tick" ->
              /\ ws.ticks_received < MaxReceived
              /\ ws' = [ws EXCEPT !.ticks_received = @ + 1]
              /\ tick_ch' = Append(tick_ch, msg.tick)
         [] msg.kind = "binary" ->
              /\ ws.skipped < MaxSkipped
              /\ ws' = [ws EXCEPT !.skipped = @ + 1]
              /\ UNCHANGED tick_ch
         [] msg.kind = "garbage" ->
              /\ ws.skipped < MaxSkipped
              /\ ws' = [ws EXCEPT !.skipped = @ + 1, !.pc = "ended"]
              /\ UNCHANGED tick_ch
         [] OTHER ->
              /\ ws' = [ws EXCEPT !.pc = "ended"]
              /\ UNCHANGED tick_ch
    /\ UNCHANGED <<opt, data, received, ft, tensors, signal_ch, executed, vs_calls,
                   patterns, trading_vars, candle_vars>>

\* One turn of the read loop: read.next().await yields msg.
WsRead(msg) ==
    /\ ws.pc = "read"
    /\ CASE msg.kind = "tick" ->
              /\ ws.ticks_received < MaxReceived
              /\ ws' = [ws EXCEPT !.ticks_received = @ + 1]
              /\ tick_ch' = Append(tick_ch, msg.tick)
         [] msg.kind \in {"garbage", "binary"} ->
              /\ ws.skipped < MaxSkipped
              /\ ws' = [ws EXCEPT !.skipped = @ + 1]
              /\ UNCHANGED tick_ch
         [] OTHER ->
              /\ ws' = [ws EXCEPT !.pc = "ended"]
              /\ UNCHANGED tick_ch
    /\ UNCHANGED <<opt, data, received, ft, tensors, signal_ch, executed, vs_calls,
                   patterns, trading_vars, candle_vars>>

\* tick_rx.recv() returns the oldest tick of the channel: it is pushed, and
\* if the buffer is ready its features are extracted.
ReceiveTick ==
    /\ ft.pc = "recv"
    /\ tick_ch # << >>
    /\ received < MaxReceived
    /\ received' = received + 1
    /\ tick_ch' = Tail(tick_ch)
    /\ data' = push(data, Head(tick_ch), opt.window_size)
    /\ IF is_ready(data', opt.window_size)
       THEN /\ ft' = [NoFt EXCEPT !.pc = "predict", !.no = received + 1,
                                  !.features = extract_features(data', opt.window_size)]
            /\ tensors' = tensors + 1
       ELSE /\ ft' = NoFt
            /\ UNCHANGED tensors
    /\ UNCHANGED <<opt, signal_ch, executed, vs_calls, patterns, ws, trading_vars, candle_vars>>

\* inference.predict(features).await: an embedding and an anomaly score, or
\* an error, on which the tick is skipped.
Predict ==
    /\ ft.pc = "predict"
    /\ \/ \E a \in AnomalyScores :
             ft' = [ft EXCEPT !.pc = "query", !.embedding = ft.no, !.score = a]
       \/ ft' = NoFt
    /\ UNCHANGED <<opt, data, received, tensors, signal_ch, executed, vs_calls,
                   patterns, ws, tick_ch, trading_vars, candle_vars>>

\* What find_similar(..).await.unwrap_or_default() leaves in `similar`, then
\* analyze_pattern and the send of a signal above the threshold.
Analyzed(outcome, similar) ==
    LET confidence == analyze_pattern(similar, ft.score)
    IN  /\ ft' = [ft EXCEPT !.pc = "upsert", !.query = outcome,
                            !.similar = similar, !.confidence = confidence]
        /\ signal_ch' = IF above_threshold(confidence, opt.threshold)
                        THEN Append(signal_ch, [no |-> ft.no, confidence |-> confidence])
                        ELSE signal_ch

\* vector_store.find_similar(&embedding, 5) is answered, with neighbours or
\* with an error.
FindSimilar ==
    /\ ft.pc = "query"
    /\ vs_calls' = [vs_calls EXCEPT !.find_similar = @ + 1]
    /\ \/ \E scores \in NeighborLists : Analyzed("Ok", scores)
       \/ Analyzed("Err", << >>)
    /\ UNCHANGED <<opt, data, received, tensors, executed, patterns, ws, tick_ch, trading_vars, candle_vars>>

\* Mutant: the pattern of a tick whose query failed is not inserted.
InsertPattern_SkippedAfterFailedQuery ==
    /\ ft.pc = "upsert"
    /\ IF ft.query = "Err"
       THEN UNCHANGED <<vs_calls, patterns>>
       ELSE /\ vs_calls' = [vs_calls EXCEPT !.insert_pattern = @ + 1]
            /\ patterns' = patterns + 1
    /\ ft' = NoFt
    /\ UNCHANGED <<opt, data, received, tensors, signal_ch, executed, ws, tick_ch, trading_vars, candle_vars>>

\* let _ = vector_store.insert_pattern(&embedding, ..).await: the point is
\* stored, or the error is ignored.
InsertPattern ==
    /\ ft.pc = "upsert"
    /\ vs_calls' = [vs_calls EXCEPT !.insert_pattern = @ + 1]
    /\ \/ patterns' = patterns + 1
       \/ UNCHANGED patterns
    /\ ft' = NoFt
    /\ UNCHANGED <<opt, data, received, tensors, signal_ch, executed, ws, tick_ch, trading_vars, candle_vars>>

\* The execution task: signal_rx.recv() returns the oldest signal and
\* execute_trade is called with it.
ExecuteTrade ==
    /\ signal_ch # << >>
    /\ executed' = [count |-> executed.count + 1, last |-> Head(signal_ch).no]
    /\ signal_ch' = Tail(signal_ch)
    /\ UNCHANGED <<opt, data, received, ft, tensors, vs_calls, patterns, ws, tick_ch, trading_vars, candle_vars>>

PipelineNext ==
    \/ WsConnect
    \/ WsSubscribe
    \/ \E msg \in TickMessages : WsRead(msg)
    \/ ReceiveTick
    \/ Predict
    \/ FindSimilar
    \/ InsertPattern
    \/ ExecuteTrade

PipelineSpec == PipelineInit /\ [][PipelineNext]_vars

----------------------------------------------------------------------------
(* The same pipeline on a stream that also carries frames that are not     *)
(* ticks, fails, or ends, for one window size.                             *)

IngestWindowSizes == {2}

IngestInit ==
    /\ PipelineInit
    /\ opt.window_size \in IngestWindowSizes

IngestNext ==
    \/ WsConnect
    \/ WsSubscribe
    \/ \E msg \in Messages : WsRead(msg)
    \/ ReceiveTick
    \/ Predict
    \/ FindSimilar
    \/ InsertPattern
    \/ ExecuteTrade

IngestSpec == IngestInit /\ [][IngestNext]_vars

\* The steps of the three tasks main spawns.
IngestionTask == WsConnect \/ WsSubscribe \/ \E msg \in Messages : WsRead(msg)
FeatureTask == ReceiveTick \/ Predict \/ FindSimilar \/ InsertPattern
ExecutionTask == ExecuteTrade

\* The runtime polls every task that can make progress, and the services the
\* tasks wait for answer.
IngestFairSpec ==
    /\ IngestSpec
    /\ WF_vars(IngestionTask)
    /\ WF_vars(FeatureTask)
    /\ WF_vars(ExecutionTask)

----------------------------------------------------------------------------
(* The candle builder of the ladder sniper *)

MaxTrades == 4                    \* calls of CandleBuilder::add_trade
MaxInstant == 4                   \* how far the clock runs
IntervalsMs == {2}                \* interval_ms, in units of the clock
MaxCandlesSet == {0, 1, 2}        \* max_candles
TradePrices == {8, 10, 12}
TradeVolumes == {2}
TradeAges == {0, 1}               \* how long before the call a trade was created

\* The trades add_trade may be called with at time t: TradeEvent::new_buy or
\* new_sell stamped them with Instant::now() when they were created.
TradeEvents(t) ==
    { [timestamp |-> t - a, price |-> p, volume_sol |-> v, is_buy |-> b] :
        a \in { x \in TradeAges : x <= t }, p \in TradePrices,
        v \in TradeVolumes, b \in BOOLEAN }

Candle_new(first_trade) ==
    [ timestamp       |-> first_trade.timestamp,
      open            |-> first_trade.price,
      high            |-> first_trade.price,
      low             |-> first_trade.price,
      close           |-> first_trade.price,
      volume_sol      |-> first_trade.volume_sol,
      buy_volume_sol  |-> IF first_trade.is_buy THEN first_trade.volume_sol ELSE 0,
      sell_volume_sol |-> IF ~first_trade.is_buy THEN first_trade.volume_sol ELSE 0,
      trade_count     |-> 1,
      buy_count       |-> IF first_trade.is_buy THEN 1 ELSE 0,
      sell_count      |-> IF ~first_trade.is_buy THEN 1 ELSE 0 ]

Candle_add_trade(candle, trade) ==
    [ candle EXCEPT
        !.high            = IF trade.price > candle.high THEN trade.price ELSE candle.high,
        !.low             = IF trade.price < candle.low THEN trade.price ELSE candle.low,
        !.close           = trade.price,
        !.volume_sol      = candle.volume_sol + trade.volume_sol,
        !.buy_volume_sol  = IF trade.is_buy THEN candle.buy_volume_sol + trade.volume_sol
                            ELSE candle.buy_volume_sol,
        !.buy_count       = IF trade.is_buy THEN candle.buy_count + 1 ELSE candle.buy_count,
        !.sell_volume_sol = IF trade.is_buy THEN candle.sell_volume_sol
                            ELSE candle.sell_volume_sol + trade.volume_sol,
        !.sell_count      = IF trade.is_buy THEN candle.sell_count ELSE candle.sell_count + 1,
        !.trade_count     = candle.trade_count + 1 ]

\* candle.timestamp.elapsed(), read at time t
elapsed_ms(candle, t) == t - candle.timestamp

\* Mutant: completed candles are never dropped.
CandleBuilder_add_trade_KeepsAll(b, trade, t) ==
    IF b.current_candle = << >>
        THEN [b EXCEPT !.current_candle = <<Candle_new(trade)>>]
    ELSE LET candle == b.current_candle[1]
         IN  IF elapsed_ms(candle, t) >= b.interval_ms
                 THEN [b EXCEPT !.completed_candles = Append(b.completed_candles, candle),
                                !.current_candle = <<Candle_new(trade)>>]
             ELSE [b EXCEPT !.current_candle = <<Candle_add_trade(candle, trade)>>]

\* CandleBuilder::add_trade(&mut self, trade), called at time t; the Option
\* current_candle is a sequence of no or one candle.
CandleBuilder_add_trade(b, trade, t) ==
    IF b.current_candle = << >>
        THEN [b EXCEPT !.current_candle = <<Candle_new(trade)>>]
    ELSE LET candle == b.current_candle[1]
             pushed == Append(b.completed_candles, candle)
         IN  IF elapsed_ms(candle, t) >= b.interval_ms
                 THEN [b EXCEPT !.completed_candles =
                                    IF Len(pushed) > b.max_candles THEN Tail(pushed)
                                    ELSE pushed,
                                !.current_candle = <<Candle_new(trade)>>]
             ELSE [b EXCEPT !.current_candle = <<Candle_add_trade(candle, trade)>>]

CandleInit ==
    /\ \E i \in IntervalsMs, m \in MaxCandlesSet : CandleInitWith(i, m)
    /\ config = DefaultConfig
    /\ portfolio = Portfolio_new(StartingCapital, 0)
    /\ positions = NoPositions
    /\ now = 0
    /\ rm_lock = NoOne
    /\ ret = NoRet
    /\ current_prices = NoPositions
    /\ ticks = 0
    /\ ops = 0
    /\ pc = [w \in Workers |-> "idle"]
    /\ call = [w \in Workers |-> NoCall]
    /\ calls = 0
    /\ db_positions = << >>
    /\ db_trades = << >>
    /\ chain = 0
    /\ shutdown = FALSE
    /\ PipelineInitWith(0, 0)

\* builder.add_trade(&trade)
AddTrade(trade) ==
    /\ added < MaxTrades
    /\ builder' = CandleBuilder_add_trade(builder, trade, instant)
    /\ added' = added + 1
    /\ UNCHANGED <<instant, trading_vars, pipeline_vars>>

\* Time passes between two calls.
Advance ==
    /\ instant < MaxInstant
    /\ instant' = instant + 1
    /\ UNCHANGED <<builder, added, trading_vars, pipeline_vars>>

CandleNext ==
    \/ \E trade \in TradeEvents(instant) : AddTrade(trade)
    \/ Advance

CandleSpec == CandleInit /\ [][CandleNext]_vars

----------------------------------------------------------------------------
(* Vocabulary of the properties *)

\* Where a task's next step reads or writes the portfolio or the position map.
RiskPcs == {"b_risk", "b_open", "b_open_insert", "s_close", "s_close_book"}

\* Where a task has begun a mutation of the RiskManager and not finished it:
\* the portfolio is debited and the position not yet stored, or the position
\* is removed and the portfolio not yet credited.
IntermediatePcs == {"b_open_insert", "s_close_book"}

\* Where a task waits for the balance query, the quote, the swap build, the
\* sign/submit/confirm step or a persistence write.
SuspensionPcs == {"b_balance", "b_quote", "b_build", "b_submit", "b_confirm",
                  "b_db_position", "b_db_trade",
                  "s_quote", "s_build", "s_submit", "s_confirm",
                  "s_db_close", "s_db_trade"}

RiskManagerChanged == portfolio' # portfolio \/ positions' # positions

TickStep == ticks' # ticks

Stepped(w) == pc'[w] # pc[w]

\* The stop conditions, on the position as it stands after the update.
HardStopCondition(p, price) ==
    price * PctScale < p.entry_price * (PctScale - config.hard_stop_loss_pct)

TrailingStopCondition(p, price) ==
    price * PctScale < p.peak_price * (PctScale - config.trailing_stop_loss_pct)

\* The stops the most recent update_positions reported for symbol s.
StopsFor(r, s) == { i \in DOMAIN r.stops : r.stops[i][1] = s }

Priced == DOMAIN positions \cap DOMAIN current_prices

----------------------------------------------------------------------------
(* C1 *)

\* C1: every step that reads or writes the portfolio or the position map is
\* taken by the task that holds the RiskManager mutex; while one task is in
\* the middle of a mutation no other task is at a risk step, and no tick
\* update runs; so risk operations never observe an intermediate state.
C1_Serializable ==
    /\ [](\A w \in Workers : pc[w] \in RiskPcs => rm_lock = w)
    /\ [](\A w1, w2 \in Workers :
             (w1 # w2 /\ pc[w1] \in IntermediatePcs) => pc[w2] \notin RiskPcs)
    /\ [][TickStep => (rm_lock = NoOne /\ \A w \in Workers : pc[w] \notin IntermediatePcs)]_vars

\* One task is in the middle of a mutation while another waits for the lock.
C1_Witness ==
    \E w1, w2 \in Workers :
        /\ pc[w1] \in IntermediatePcs
        /\ pc[w2] \in {"b_lock", "s_lock"}

----------------------------------------------------------------------------
(* C2 *)

\* C2: no task holds the RiskManager mutex while it waits for the balance
\* query, the quote, the swap build, the submission or a persistence write.
C2_NoSuspensionHoldsLock ==
    \A w \in Workers : pc[w] \in SuspensionPcs => rm_lock # w

----------------------------------------------------------------------------
(* C3 *)

\* C3: a step of a task changes the portfolio or the position map only as
\* part of open_position / close_position of a call whose transaction was
\* confirmed; and a call that fails at validation, the balance query, the
\* quote, the build or the submission has no confirmed transaction and leaves
\* the portfolio and the position map as they are.
C3_MutationAfterConfirmation ==
    [][ /\ (RiskManagerChanged /\ ~TickStep) =>
              \E w \in Workers :
                 /\ Stepped(w)
                 /\ pc[w] \in {"b_open", "b_open_insert", "s_close", "s_close_book"}
                 /\ call[w].signature # 0
        /\ \A w \in Workers :
              ( /\ pc[w] # "err"
                /\ pc'[w] = "err"
                /\ call'[w].failed_at \in {"validate", "balance", "quote", "build", "submit", "confirm"} )
              => (~RiskManagerChanged /\ call[w].signature = 0)
      ]_vars

\* One call has failed at submission while another has opened its position
\* after confirmation.
C3_Witness ==
    \E w1, w2 \in Workers :
        /\ pc[w1] = "err" /\ call[w1].failed_at = "submit"
        /\ pc[w2] = "b_db_position" /\ call[w2].symbol \in DOMAIN positions

----------------------------------------------------------------------------
(* C4 *)

BuyTradesOf(id) ==
    { i \in DOMAIN db_trades :
        db_trades[i].position_id = id /\ db_trades[i].trade_type = "buy" }

TradesSigned(sig) == { i \in DOMAIN db_trades : db_trades[i].signature = sig }

\* C4: a buy that has returned success has its position row, for its
\* instrument, and exactly one Trade Record, of type buy, linked to that row;
\* the call stored one entry in the position map and inserted one row, with
\* status open; rows and trades are only ever added one at a time, by the
\* persistence step of a call.
C4_SuccessfulBuy ==
    /\ [](\A w \in Workers :
            (pc[w] = "ok" /\ call[w].op = "buy") =>
               /\ call[w].position_id \in DOMAIN db_positions
               /\ db_positions[call[w].position_id].symbol = call[w].symbol
               /\ Cardinality(TradesSigned(call[w].signature)) = 1
               /\ TradesSigned(call[w].signature) = BuyTradesOf(call[w].position_id))
    /\ [][ /\ \A w \in Workers :
                (Stepped(w) /\ pc[w] = "b_open_insert") =>
                   /\ DOMAIN positions' = DOMAIN positions \cup {call[w].symbol}
                   /\ positions'[call[w].symbol].entry_price = call[w].price
                   /\ positions'[call[w].symbol].size = call[w].size_usd
           /\ \A w \in Workers :
                (Stepped(w) /\ pc[w] = "b_db_position" /\ pc'[w] = "b_db_trade") =>
                   /\ Len(db_positions') = Len(db_positions) + 1
                   /\ call'[w].position_id = Len(db_positions')
                   /\ db_positions'[Len(db_positions')].status = "open"
                   /\ db_positions'[Len(db_positions')].symbol = call[w].symbol
           /\ Len(db_positions') # Len(db_positions) =>
                \E w \in Workers :
                   Stepped(w) /\ pc[w] = "b_db_position" /\ pc'[w] = "b_db_trade"
           /\ Len(db_trades') # Len(db_trades) =>
                /\ Len(db_trades') = Len(db_trades) + 1
                /\ \E w \in Workers :
                      Stepped(w) /\ pc[w] \in {"b_db_trade", "s_db_trade"} /\ pc'[w] = "ok"
         ]_vars

\* A buy has returned success.
C4_Witness ==
    \E w \in Workers :
        /\ pc[w] = "ok" /\ call[w].op = "buy"
        /\ Len(db_trades) >= 1

----------------------------------------------------------------------------
(* C9 *)

\* C9: the persisted status is one of open, closing, closed; a row that reads
\* open never reads closed after one step; a row that reads closed is never
\* written again.
C9_StatusOrder ==
    /\ [](\A i \in DOMAIN db_positions :
             db_positions[i].status \in {"open", "closing", "closed"})
    /\ [][\A i \in DOMAIN db_positions :
             /\ db_positions[i].status = "open" =>
                   db_positions'[i].status \in {"open", "closing"}
             /\ db_positions[i].status = "closed" =>
                   db_positions'[i] = db_positions[i]]_vars

----------------------------------------------------------------------------
(* C10 *)

OpenRows(s) ==
    { i \in DOMAIN db_positions :
        db_positions[i].symbol = s /\ db_positions[i].status = "open" }

\* C10: a buy that has passed validation is for an instrument without a
\* position; open_position never stores a position over an existing one; no
\* instrument has two position rows that read open.
C10_OneOpenPerInstrument ==
    /\ [](\A w \in Workers :
             pc[w] = "b_balance" => call[w].symbol \notin DOMAIN positions)
    /\ [](\A s \in Symbols : Cardinality(OpenRows(s)) <= 1)
    /\ [][\A w \in Workers :
             (Stepped(w) /\ pc[w] = "b_open_insert") =>
                call[w].symbol \notin DOMAIN positions]_vars

----------------------------------------------------------------------------
(* C5 *)

----------------------------------------------------------------------------
(* C6 *)

\* C6: a tick update never lowers the trailing stop of a position, the level
\* set at the open included.
C6_TrailingStopNeverDecreases ==
    [][TickStep =>
          \A s \in DOMAIN positions :
             positions'[s].trailing_stop >= positions[s].trailing_stop]_vars

----------------------------------------------------------------------------
(* C7 *)

----------------------------------------------------------------------------
(* C8 *)

\* C8: a position for which the preceding tick update reported a stop is
\* Closing: the next tick update reports no stop for it and leaves its peak
\* and its trailing stop as they are.
C8_ClosingIsFinal ==
    [][(ret.op = "update_positions" /\ TickStep) =>
          \A s \in DOMAIN positions :
             StopsFor(ret, s) # {} =>
                /\ StopsFor(ret', s) = {}
                /\ positions'[s].peak_price = positions[s].peak_price
                /\ positions'[s].trailing_stop = positions[s].trailing_stop]_vars

----------------------------------------------------------------------------
(* Accounting *)

RECURSIVE SumOfSizes(_)
\* The sum of the entry sizes of the positions in a position map.
SumOfSizes(pos) ==
    IF DOMAIN pos = {} THEN 0
    ELSE LET s == CHOOSE x \in DOMAIN pos : TRUE
         IN  pos[s].size + SumOfSizes([x \in DOMAIN pos \ {s} |-> pos[x]])

\* A direct close_position call that found its position has just returned.
CloseStep ==
    /\ ops' = ops + 1
    /\ ret'.op = "close_position"
    /\ ret'.result = "Ok"

\* C11: After any sequence of open_position and close_position calls,
\* available_capital plus the sum of the entry sizes of the positions in the
\* map equals current_capital, and current_capital equals starting_capital
\* plus the total realized pnl.
C11_CapitalConservation ==
    /\ portfolio.available_capital + SumOfSizes(positions) = portfolio.current_capital
    /\ portfolio.current_capital = portfolio.starting_capital + portfolio.total_pnl

\* C12: winning_trades + losing_trades = total_trades and the two streak
\* counters are never both non-zero; each successful close adds one to
\* total_trades and to exactly one of winning_trades / losing_trades, adds
\* one to one streak counter and resets the other to zero.
C12_TradeCounters ==
    /\ [](/\ portfolio.winning_trades + portfolio.losing_trades = portfolio.total_trades
          /\ ~(portfolio.consecutive_wins > 0 /\ portfolio.consecutive_losses > 0))
    /\ [][CloseStep =>
            /\ portfolio'.total_trades = portfolio.total_trades + 1
            /\ \/ /\ portfolio'.winning_trades = portfolio.winning_trades + 1
                  /\ portfolio'.losing_trades = portfolio.losing_trades
                  /\ portfolio'.consecutive_wins = portfolio.consecutive_wins + 1
                  /\ portfolio'.consecutive_losses = 0
               \/ /\ portfolio'.losing_trades = portfolio.losing_trades + 1
                  /\ portfolio'.winning_trades = portfolio.winning_trades
                  /\ portfolio'.consecutive_losses = portfolio.consecutive_losses + 1
                  /\ portfolio'.consecutive_wins = 0]_vars

\* A close that lost has just ended a winning streak.
C12_Witness ==
    /\ ret.op = "close_position"
    /\ ret.result = "Ok"
    /\ ret.pnl < 0
    /\ portfolio.winning_trades >= 1
    /\ portfolio.losing_trades = 1
    /\ portfolio.consecutive_losses = 1
    /\ portfolio.consecutive_wins = 0

----------------------------------------------------------------------------
(* Position sizing *)

\* The most recent call was calculate_position_size; the portfolio it read
\* is the current one.
Sized == ret.op = "calculate_position_size"

\* C13: The size returned by position sizing is never greater than
\* min(max_position_pct_portfolio * available_capital, max_position_size,
\* available_capital), for every confidence, volatility and portfolio state.
C13_SizeWithinCaps ==
    Sized =>
        /\ ret.size * PctScale
              <= config.max_position_pct_portfolio * portfolio.available_capital
        /\ ret.size <= config.max_position_size_usd
        /\ ret.size <= portfolio.available_capital

\* Sizing after an open: the Kelly size of the remaining capital is above
\* the absolute cap, which is returned.
C13_Witness ==
    /\ Sized
    /\ portfolio.available_capital < portfolio.starting_capital
    /\ ret.confidence = 80
    /\ ret.volatility <= config.vol_target
    /\ ret.size = config.max_position_size_usd

\* The reference formula, in whole percent: for p = conf / 100 and b = 3/2,
\* (p*b - (1 - p)) / b = (5*conf - 200) / 300.
ReferenceKelly300(conf) == IF 5 * conf > 200 THEN 5 * conf - 200 ELSE 0

\* vs = min(1, vol_target / vol), 1 when vol is not positive, as the
\* fraction <<numerator, denominator>>.
ReferenceVolScalar(vol) ==
    IF vol <= 0 THEN <<1, 1>>
    ELSE IF config.vol_target >= vol THEN <<1, 1>>
    ELSE <<config.vol_target, vol>>

\* size = min(available * f * vs, max_position_pct * available,
\* max_position_size), in whole USD rounded down.
ReferenceSize(conf, vol) ==
    LET vs   == ReferenceVolScalar(vol)
        base == (portfolio.available_capital * ReferenceKelly300(conf)
                    * config.kelly_fraction * vs[1]) \div (300 * 100 * vs[2])
        pct  == (config.max_position_pct_portfolio * portfolio.available_capital)
                    \div 100
    IN  Min(base, Min(pct, config.max_position_size_usd))

\* C14: Position sizing equals the reference formula f* = max(0, (p*b -
\* (1 - p)) / b), f = f* * kelly_fraction, vs = min(1, vol_target / vol)
\* (1 when vol is not positive), size = min(available * f * vs,
\* max_position_pct * available, max_position_size); the size is 0 whenever
\* confidence <= 0.4; for available 10000, confidence 0.8, kelly_fraction
\* 0.25 and vol = vol_target it is 1666.67 (1666 in whole USD) uncapped and
\* 1000 with max_position_size 1000.
C14_ReferenceSizing ==
    Sized =>
        /\ ret.size = ReferenceSize(ret.confidence, ret.volatility)
        /\ ret.confidence <= 40 => ret.size = 0
        /\ ( /\ portfolio.available_capital = 10000
             /\ ret.confidence = 80
             /\ config.kelly_fraction = 25
             /\ ret.volatility = config.vol_target )
           => ret.size = IF config.max_position_size_usd = 1000 THEN 1000 ELSE 1666

\* The scenario of the reference formula with no binding cap.
C14_Witness ==
    /\ Sized
    /\ portfolio.available_capital = 10000
    /\ ret.confidence = 80
    /\ ret.volatility = config.vol_target
    /\ config.max_position_size_usd > 1666
    /\ ret.size = 1666

----------------------------------------------------------------------------
(* Validation *)

\* A validate_trade call returns: the step reads the unprimed portfolio,
\* positions and clock, and ret' is its record.
ValidateStep ==
    /\ ret'.op = "validate_trade"
    /\ ret' # ret
    /\ UNCHANGED <<ops, now, shutdown, pipeline_vars, candle_vars>>

PositionCountAtLimit == Cardinality(DOMAIN positions) >= config.max_total_positions

DailyDrawdownExceeded ==
    portfolio.daily_pnl * 100
        < (0 - config.max_daily_drawdown_pct) * portfolio.day_start_capital

WeeklyDrawdownExceeded ==
    portfolio.weekly_pnl * 100
        < (0 - config.max_weekly_drawdown_pct) * portfolio.week_start_capital

LossStreakReached ==
    portfolio.consecutive_losses >= config.cooldown_after_loss_streak

SinceLastLoss == now - portfolio.last_loss_time

CooldownActive ==
    /\ LossStreakReached
    /\ portfolio.last_loss_time >= 0
    /\ SinceLastLoss < config.cooldown_duration

SinceDayAnchor == now - portfolio.day_start_time
SinceWeekAnchor == now - portfolio.week_start_time

\* C16: Once realized losses bring daily_pnl below -max_daily_drawdown_pct
\* of the day's starting capital, every validation returns
\* DrawdownLimitExceeded until the next day anchor; once the day has rolled
\* over, validation is no longer rejected for that reason.  The same holds
\* for the weekly limit and the week anchor.
C16_DrawdownHaltEndsAtAnchor ==
    [][ValidateStep =>
        /\ ( /\ ~PositionCountAtLimit
             /\ \/ DailyDrawdownExceeded /\ SinceDayAnchor < Day
                \/ WeeklyDrawdownExceeded /\ SinceWeekAnchor < Week )
           => ret'.result = "DrawdownLimitExceeded"
        /\ ( /\ SinceDayAnchor >= Day
             /\ ~WeeklyDrawdownExceeded \/ SinceWeekAnchor >= Week )
           => ret'.result # "DrawdownLimitExceeded"]_vars

\* C17 as stated: after cooldown_threshold consecutive losses, every
\* validation made less than cooldown_duration after the last loss is
\* rejected with LossStreakCooldown, and a validation made after the
\* cooldown has elapsed is not rejected for that reason.
C17_CooldownAsStated ==
    [][ValidateStep =>
        /\ CooldownActive => ret'.result = "LossStreakCooldown"
        /\ (LossStreakReached /\ SinceLastLoss >= config.cooldown_duration)
              => ret'.result # "LossStreakCooldown"]_vars

\* C17: After cooldown_threshold consecutive losses, every validation made
\* less than cooldown_duration after the last loss is rejected, with
\* LossStreakCooldown unless the position-count or a drawdown check, which
\* come first, rejects it; a validation made once cooldown_duration has
\* elapsed is not rejected with LossStreakCooldown although
\* consecutive_losses is still at or above the threshold.
C17_Cooldown ==
    [][ValidateStep =>
        /\ CooldownActive =>
              /\ ret'.result \in {"MaxPositionsReached", "DrawdownLimitExceeded",
                                  "LossStreakCooldown"}
              /\ ( /\ ~PositionCountAtLimit
                   /\ ~DailyDrawdownExceeded
                   /\ ~WeeklyDrawdownExceeded )
                 => ret'.result = "LossStreakCooldown"
        /\ (LossStreakReached /\ SinceLastLoss >= config.cooldown_duration)
              => ret'.result # "LossStreakCooldown"]_vars

\* A validation passes after the cooldown has elapsed, the loss streak
\* still standing at the threshold.
C17_Witness ==
    /\ ret.op = "validate_trade"
    /\ ret.result = "Ok"
    /\ LossStreakReached
    /\ portfolio.last_loss_time >= 0
    /\ SinceLastLoss >= config.cooldown_duration

\* A successful close_position call returns in PolicySpec or RiskSpec.
CloseReturned == ret.op = "close_position" /\ ret.result = "Ok"

\* C18: daily_pnl is reset to zero, and the day's starting capital set to
\* current_capital, when the day rolls over relative to the day anchor, and
\* weekly_pnl likewise when the week rolls over; between rollovers each
\* close adds its realized pnl to both.  So a close booked a day or more
\* after the day anchor finds daily_pnl reset and leaves it equal to its own
\* pnl, and likewise for the week.
C18_ResetOnRollover ==
    [][(CloseReturned' /\ ops' = ops + 1 /\ now' = now) =>
        /\ portfolio'.daily_pnl =
              (IF SinceDayAnchor >= Day THEN 0 ELSE portfolio.daily_pnl) + ret'.pnl
        /\ portfolio'.weekly_pnl =
              (IF SinceWeekAnchor >= Week THEN 0 ELSE portfolio.weekly_pnl) + ret'.pnl]_vars

\* The rejection the listed conditions call for, the earliest first.
ExpectedVerdict(size, vol) ==
    IF PositionCountAtLimit THEN "MaxPositionsReached"
    ELSE IF DailyDrawdownExceeded \/ WeeklyDrawdownExceeded THEN "DrawdownLimitExceeded"
    ELSE IF CooldownActive THEN "LossStreakCooldown"
    ELSE IF vol > 50 THEN "ExtremeVolatility"
    ELSE IF size > portfolio.available_capital THEN "InsufficientCapital"
    ELSE IF size > config.max_position_size_usd THEN "PositionSizeTooLarge"
    ELSE "Ok"

\* C19: validate_trade rejects if and only if at least one listed condition
\* holds (position count at limit, daily or weekly drawdown exceeded, active
\* loss-streak cooldown, volatility above the ceiling, size above
\* available_capital, size above the maximum position size); the reason is
\* that of the earliest check in this order; the call changes neither the
\* portfolio nor the positions.
C19_ValidationVerdict ==
    [][ValidateStep =>
        /\ ret'.result = ExpectedVerdict(ret'.size, ret'.volatility)
        /\ UNCHANGED <<portfolio, positions>>]_vars

\* A validation for which three conditions hold returns the earliest.
C19_Witness ==
    /\ ret.op = "validate_trade"
    /\ ret.result = "ExtremeVolatility"
    /\ ret.volatility > 50
    /\ ret.size > portfolio.available_capital
    /\ ret.size > config.max_position_size_usd

----------------------------------------------------------------------------
(* Admission of trades by the execution engine *)

\* Task w has just left the validation step of execute_buy.
Validated(w) == pc[w] = "b_risk" /\ pc'[w] # "b_risk"

QuotedPcs == {"b_build", "b_submit", "b_confirm", "b_open", "b_open_insert",
              "b_db_position", "b_db_trade", "ok"}

\* C20: A proposed trade whose final size is below the dust threshold, in
\* particular one of size 0, is rejected: execute_buy never requests a quote
\* and never opens a position for it.
C20_NoDustTrade ==
    /\ \A w \in Workers :
          (call[w].op = "buy" /\ pc[w] \in QuotedPcs) => call[w].size_usd > 0
    /\ \A s \in DOMAIN positions : positions[s].size > 0

----------------------------------------------------------------------------
(* Cancellation, the ledger and the submission path *)

\* A step in which the runtime drops task w.
Cancelled(w) == pc[w] # "cancelled" /\ pc'[w] = "cancelled"

\* A step that closes a position: the position map loses an instrument or a
\* database row changes its status.
ClosesPosition ==
    \/ \E s \in DOMAIN positions : s \notin DOMAIN positions'
    \/ \E i \in DOMAIN db_positions : db_positions'[i].status # db_positions[i].status

\* C21: Shutdown while a submitted sell is outstanding produces no closed
\* position, in the RiskManager or in the database, unless the sell has seen
\* its confirmation: dropping a task closes nothing, and a sell closes only
\* with the signature of a transaction the node has confirmed.
C21_NoCloseWithoutConfirmation ==
    [][ \A w \in Workers :
          /\ Cancelled(w) => ~ClosesPosition
          /\ (Stepped(w) /\ call[w].op = "sell" /\ ClosesPosition)
                => (call[w].signature # 0 /\ call[w].signature <= chain)
          /\ (pc[w] = "s_confirm" /\ pc'[w] = "err")
                => (~ClosesPosition /\ call'[w].signature = 0)
      ]_vars

\* The runtime is shutting down while a sell's transaction is outstanding,
\* and the position is open in the RiskManager and in the database.
C21_Witness ==
    \E w \in Workers :
        /\ shutdown
        /\ pc[w] = "s_confirm"
        /\ call[w].symbol \in DOMAIN positions
        /\ db_positions[call[w].position_id].status = "open"

\* A swap whose confirmation the engine saw and whose call is over.
Settled(sig) ==
    /\ sig \in 1..chain
    /\ \A w \in Workers : Finished(w) \/ call[w].signature # sig

\* C22: Every swap the engine submitted and saw confirmed has exactly one
\* trade record: no signature has two, and once the call is over none is
\* missing.
C22_OneTradePerSwap ==
    \A sig \in 1..chain :
        /\ Cardinality(TradesSigned(sig)) <= 1
        /\ Settled(sig) => Cardinality(TradesSigned(sig)) = 1

\* C23: When execute_buy or execute_sell fails at the quote, build or submit
\* step, a record of the failed attempt is persisted and the position map
\* is not changed.
C23_FailedTradeRecorded ==
    [][ \A w \in Workers :
          ( /\ pc[w] # "err"
            /\ pc'[w] = "err"
            /\ call'[w].failed_at \in {"quote", "build", "submit", "confirm"} )
          => ( /\ positions' = positions
               /\ \E i \in DOMAIN db_trades' :
                     /\ i \notin DOMAIN db_trades
                     /\ db_trades'[i].symbol = call[w].symbol
                     /\ db_trades'[i].trade_type \notin {"buy", "sell"} )
      ]_vars

\* Where a call stands once get_swap_transaction has built its transaction.
BuiltPcs == {"b_submit", "b_confirm", "b_open", "b_open_insert",
             "b_db_position", "b_db_trade",
             "s_submit", "s_confirm", "s_lock", "s_close", "s_close_book",
             "s_db_close", "s_db_trade"}

\* C24: A quote whose price impact exceeds max_price_impact_bps, or whose
\* slippage cap exceeds max_slippage_bps, is rejected before the build step:
\* no call goes on to build, sign, submit, open or close with such a quote.
C24_QuoteLimits ==
    \A w \in Workers :
        pc[w] \in BuiltPcs =>
            /\ call[w].price_impact_bps <= max_price_impact_bps
            /\ slippage_bps <= max_slippage_bps

\* C25: A submit failure before acceptance is retried: a call reports the
\* failure of its submission only after it has tried to send three times.
C25_SubmitRetried ==
    \A w \in Workers :
        (pc[w] = "err" /\ call[w].failed_at = "submit") => call[w].attempts = 3

----------------------------------------------------------------------------
(* The feature buffer *)

\* A step in which the feature task receives a tick.
TickReceived == received' = received + 1

\* C26: The buffer is not ready, and no tensor is produced, until it has
\* received window_size ticks; from then on it is ready after every push and
\* exactly one tensor, of window_size rows, is produced per tick; nothing
\* else produces a tensor.
C26_ReadyAfterWindowTicks ==
    [][ IF TickReceived
        THEN IF received' >= opt.window_size
             THEN /\ tensors' = tensors + 1
                  /\ ft'.pc = "predict"
                  /\ Len(ft'.features) = opt.window_size
             ELSE /\ tensors' = tensors
                  /\ ft'.pc = "recv"
        ELSE tensors' = tensors
      ]_vars

\* A window of three ticks has slid once: the third and the fourth tick each
\* produced a tensor.
C26_Witness ==
    /\ opt.window_size = 3
    /\ received = 4
    /\ tensors = 2

\* The last n elements of a sequence.
LastTicks(seq, n) ==
    IF Len(seq) <= n THEN seq ELSE SubSeq(seq, Len(seq) - n + 1, Len(seq))

\* The tensor of the worked example: prices, deltas, volumes.
ExampleWindow ==
    << [price |-> 100, volume |-> 1], [price |-> 101, volume |-> 1],
       [price |-> 102, volume |-> 2] >>
ExampleTensor == << <<100, 0, 1>>, <<101, 1, 1>>, <<102, 1, 2>> >>

\* The window and the tensor of the tick in hand.
WindowBounded ==
    /\ Len(data) <= opt.window_size
    /\ Len(data) = Min(received, opt.window_size)

WindowSlides ==
    TickReceived =>
        \E tick \in TickInputs :
            data' = LastTicks(Append(data, tick), opt.window_size)

HasTensor == ft.pc # "recv"

\* C27 as stated: the window never holds more than window_size ticks and
\* holds the last ones in arrival order; in every tensor row t has channel
\* 0 = the tick's price, channel 1 = price_t - price_{t-1} (0 in the first
\* row) and channel 2 = the tick's volume.
C27_TensorAsStated ==
    /\ WindowBounded
    /\ HasTensor =>
          /\ Len(ft.features) = Len(data)
          /\ \A t \in 1..Len(data) :
                /\ ft.features[t][1] = data[t].price
                /\ ft.features[t][2] =
                      (IF t = 1 THEN 0 ELSE data[t].price - data[t - 1].price)
                /\ ft.features[t][3] = data[t].volume

\* C27: the window never holds more than window_size ticks and, once full,
\* holds the last window_size ticks in arrival order; in every tensor row t
\* has channel 0 = the tick's price as f32, channel 1 = the difference of the
\* f32 prices of ticks t and t-1 (0 in the first row) and channel 2 = the
\* tick's volume as f32; the worked example gives its tensor.
C27_Tensor ==
    /\ [](/\ WindowBounded
          /\ HasTensor =>
                /\ Len(ft.features) = Len(data)
                /\ \A t \in 1..Len(data) :
                      /\ ft.features[t][1] = as_f32(data[t].price)
                      /\ ft.features[t][2] =
                            (IF t = 1 THEN 0
                             ELSE as_f32(data[t].price) - as_f32(data[t - 1].price))
                      /\ ft.features[t][3] = as_f32(data[t].volume)
                /\ data = ExampleWindow => ft.features = ExampleTensor)
    /\ [][WindowSlides]_vars

\* A window of three ticks has slid, and the tensor holds, next to the
\* example's rows, a price that f32 cannot hold exactly.
C27_Witness ==
    /\ opt.window_size = 3
    /\ received = 4
    /\ HasTensor
    /\ data = << [price |-> 101, volume |-> 1], [price |-> 102, volume |-> 2],
                 [price |-> 16777217, volume |-> 1] >>
    /\ ft.features = << <<101, 0, 1>>, <<102, 1, 2>>, <<16777216, 16777114, 1>> >>

----------------------------------------------------------------------------
(* The signal *)

\* The mean of a list of scores as a fraction; 0 for the empty list.
MeanNum(scores) == SumOfScores(scores)
MeanDen(scores) == IF scores = << >> THEN 1 ELSE Len(scores)
MeanAtMost(s1, s2) == MeanNum(s1) * MeanDen(s2) <= MeanNum(s2) * MeanDen(s1)

\* clamp(mean(scores) * clamp(1 - a, 0, 1), 0, 1)
ReferenceConfidence(scores, a) ==
    LET factor == Max(0, Min(SimilarityScale - a, SimilarityScale))
        product == (MeanNum(scores) * factor) \div MeanDen(scores)
    IN  Max(0, Min(product, ConfidenceScale))

\* The feature task has derived the confidence of the tick in hand.
HasSignal == ft.pc = "upsert"

\* C28: For every neighbour list, empty or with negative scores, and every
\* anomaly score, the confidence lies in [0, 1], equals
\* clamp(mean * clamp(1 - a, 0, 1), 0, 1), does not fall when the mean
\* similarity rises and does not rise when the anomaly score rises.
C28_Confidence ==
    HasSignal =>
        /\ ft.confidence >= 0
        /\ ft.confidence <= ConfidenceScale
        /\ ft.confidence = ReferenceConfidence(ft.similar, ft.score)
        /\ ft.query = "Err" => (ft.similar = << >> /\ ft.confidence = 0)
        /\ \A scores \in NeighborLists :
              /\ MeanAtMost(ft.similar, scores)
                    => ft.confidence <= analyze_pattern(scores, ft.score)
              /\ MeanAtMost(scores, ft.similar)
                    => analyze_pattern(scores, ft.score) <= ft.confidence
        /\ \A a \in AnomalyScores :
              /\ a >= ft.score => analyze_pattern(ft.similar, a) <= ft.confidence
              /\ a <= ft.score => analyze_pattern(ft.similar, a) >= ft.confidence

\* A confidence strictly between 0 and 1: mean 0.95, anomaly score 0.5.
C28_Witness ==
    /\ HasSignal
    /\ ft.similar = <<100, 90>>
    /\ ft.score = 50
    /\ ft.confidence = 4750

\* The steps of the feature task and of the execution task.
Analysis == ft.pc = "query" /\ ft'.pc = "upsert"
NotReady == TickReceived /\ ft'.pc = "recv"
InferenceFailed == ft.pc = "predict" /\ ft'.pc = "recv"
Forwarded ==
    /\ signal_ch' = Append(signal_ch, [no |-> ft.no, confidence |-> ft'.confidence])
    /\ executed' = executed
Consumed ==
    /\ signal_ch # << >>
    /\ signal_ch' = Tail(signal_ch)
    /\ executed' = [count |-> executed.count + 1, last |-> Head(signal_ch).no]

\* C29: A signal is put on the signal channel only for a tick whose
\* confidence is strictly above the threshold; a tick at or below the
\* threshold, a tick before the window is ready and a tick whose inference
\* failed produce none; the signals on the channel are those of distinct
\* ticks not yet consumed, and the execution task takes each off the channel
\* as it consumes it.
C29_SignalForwarding ==
    /\ [](/\ \A i \in DOMAIN signal_ch :
                /\ signal_ch[i].confidence > opt.threshold
                /\ signal_ch[i].no > executed.last
                /\ signal_ch[i].no <= received
                /\ \A j \in DOMAIN signal_ch : i < j => signal_ch[i].no < signal_ch[j].no
          /\ executed.count <= received)
    /\ [][ /\ (Analysis /\ ft'.confidence > opt.threshold) => Forwarded
           /\ (Analysis /\ ft'.confidence <= opt.threshold) => signal_ch' = signal_ch
           /\ (NotReady \/ InferenceFailed) => signal_ch' = signal_ch
           /\ signal_ch' # signal_ch =>
                 \/ Analysis /\ ft'.confidence > opt.threshold /\ Forwarded
                 \/ Consumed
           /\ executed' # executed => Consumed
         ]_vars

\* One signal was forwarded and consumed, and the tick in hand, whose
\* confidence equals the threshold, put nothing on the channel.
C29_Witness ==
    /\ executed.count = 1
    /\ HasSignal
    /\ ft.confidence = opt.threshold
    /\ signal_ch = << >>

\* C30: For every tick on which the window is ready and inference
\* succeeded, the feature task first queries the vector store and afterwards
\* calls insert_pattern for that tick's embedding, once, whether or not a
\* signal was forwarded; a failed query leaves an empty neighbour list and
\* confidence 0, and the pattern is inserted all the same.
C30_QueryThenUpsert ==
    /\ [](/\ vs_calls.find_similar =
                vs_calls.insert_pattern + (IF ft.pc = "upsert" THEN 1 ELSE 0)
          /\ patterns <= vs_calls.insert_pattern
          /\ ft.pc = "query" => ft.embedding = ft.no
          /\ (HasSignal /\ ft.query = "Err") => (ft.similar = << >> /\ ft.confidence = 0))
    /\ [][ /\ (ft.pc = "query" /\ ft' # ft) =>
                 /\ Analysis
                 /\ vs_calls' = [vs_calls EXCEPT !.find_similar = @ + 1]
                 /\ patterns' = patterns
           /\ (ft.pc = "upsert" /\ ft' # ft) =>
                 /\ ft'.pc = "recv"
                 /\ vs_calls' = [vs_calls EXCEPT !.insert_pattern = @ + 1]
                 /\ patterns' \in {patterns, patterns + 1}
           /\ vs_calls' # vs_calls => ft.pc \in {"query", "upsert"}
           /\ patterns' # patterns => ft.pc = "upsert"
         ]_vars

\* The second ready tick's query failed: it is in hand with no neighbours
\* and confidence 0, about to be inserted; the first one's pattern is stored.
C30_Witness ==
    /\ HasSignal
    /\ ft.query = "Err"
    /\ ft.confidence = 0
    /\ vs_calls = [find_similar |-> 2, insert_pattern |-> 1]
    /\ patterns = 1

----------------------------------------------------------------------------
(* Stops at the boundary and their order *)

\* price <= entry * (1 - hard_stop_loss_pct)
AtOrBelowHardStop(p, price) ==
    price * PctScale <= p.entry_price * (PctScale - config.hard_stop_loss_pct)

\* C34: On a tick update, a position whose price is at or below
\* entry_price * (1 - hard_stop_loss_pct), equality included, is reported
\* with reason hard_stop.
C34_HardStopAtBoundary ==
    ret.op = "update_positions" =>
        \A s \in Priced :
            AtOrBelowHardStop(positions[s], current_prices[s])
            => \E i \in StopsFor(ret, s) : ret.stops[i][2] = "hard_stop"

\* The order of the instrument ids (string comparison: "BONK" < "WIF").
SymbolRank(s) == IF s = "BONK" THEN 1 ELSE 2

\* C35: The stops of one tick update are returned sorted by instrument id,
\* ascending, so the same position map and price map always give the same
\* ordered result.
C35_StopsSortedBySymbol ==
    ret.op = "update_positions" =>
        \A i, j \in DOMAIN ret.stops :
            i < j => SymbolRank(ret.stops[i][1]) <= SymbolRank(ret.stops[j][1])

----------------------------------------------------------------------------
(* C36 *)

\* C36: A tick update sets the peak of every position that has a price in
\* the price map to the larger of its previous peak and the new price, and
\* its trailing stop to peak * (1 - trailing_stop_loss_pct); a position
\* without a price in the map is left as it was.  A position starts with its
\* peak at the entry price, so the peak is the maximum of the entry price and
\* the prices applied so far: it is never below the entry or current price.
C36_PeakAndTrailingStop ==
    /\ [](\A s \in DOMAIN positions :
             /\ positions[s].peak_price >= positions[s].entry_price
             /\ positions[s].peak_price >= positions[s].current_price)
    /\ [][TickStep =>
            \A s \in DOMAIN positions :
               IF s \in DOMAIN current_prices'
                  THEN /\ positions'[s].peak_price =
                             Max(positions[s].peak_price, current_prices'[s])
                       /\ positions'[s].trailing_stop =
                             positions'[s].peak_price
                                * (PctScale - config.trailing_stop_loss_pct)
                  ELSE positions'[s] = positions[s]]_vars
    /\ [][~TickStep =>
            \A s \in DOMAIN positions' :
               (s \notin DOMAIN positions \/ positions'[s] # positions[s])
               => positions'[s].peak_price = positions'[s].entry_price]_vars

\* After an update one position stands below a peak it reached earlier, with
\* its trailing stop at that peak's level, and another position had no price
\* in the map.
C36_Witness ==
    /\ ret.op = "update_positions"
    /\ \E s \in Priced :
          /\ positions[s].peak_price > positions[s].entry_price
          /\ positions[s].peak_price > positions[s].current_price
          /\ positions[s].trailing_stop =
                positions[s].peak_price * (PctScale - config.trailing_stop_loss_pct)
    /\ DOMAIN positions \ DOMAIN current_prices # {}

----------------------------------------------------------------------------
(* C38 *)

\* C38: A close whose realized pnl is exactly zero is booked as a loss: it
\* adds one to losing_trades and to consecutive_losses, leaves winning_trades,
\* resets consecutive_wins to zero and sets last_loss_time to the time of the
\* close; a close adds to winning_trades only when its pnl is strictly
\* positive.
C38_BreakEvenIsLoss ==
    [][CloseStep =>
          /\ ret'.pnl = 0 =>
                /\ portfolio'.losing_trades = portfolio.losing_trades + 1
                /\ portfolio'.winning_trades = portfolio.winning_trades
                /\ portfolio'.consecutive_losses = portfolio.consecutive_losses + 1
                /\ portfolio'.consecutive_wins = 0
                /\ portfolio'.last_loss_time = now
          /\ portfolio'.winning_trades # portfolio.winning_trades => ret'.pnl > 0]_vars

\* A close at the entry price has just ended a winning streak.
C38_Witness ==
    /\ ret.op = "close_position"
    /\ ret.result = "Ok"
    /\ ret.pnl = 0
    /\ portfolio.total_pnl > 0
    /\ portfolio.winning_trades >= 1
    /\ portfolio.losing_trades = 1
    /\ portfolio.consecutive_losses = 1
    /\ portfolio.consecutive_wins = 0
    /\ portfolio.last_loss_time = now

----------------------------------------------------------------------------
(* C39 *)

\* A direct close_position call has just returned.
CloseCall ==
    /\ ops' = ops + 1
    /\ ret'.op = "close_position"

\* C39: close_position returns successfully only by removing a position that
\* was in the map; a call that returns "position not found" leaves the
\* portfolio and every position as they were.  Closing an instrument a second
\* time therefore fails and books nothing.
C39_MissingPositionUntouched ==
    [][CloseCall =>
          \/ /\ ret'.result = "Ok"
             /\ \E s \in DOMAIN positions :
                   /\ DOMAIN positions' = DOMAIN positions \ {s}
                   /\ \A x \in DOMAIN positions' : positions'[x] = positions[x]
                   /\ portfolio'.total_pnl = portfolio.total_pnl + ret'.pnl
                   /\ portfolio'.total_trades = portfolio.total_trades + 1
          \/ /\ ret'.result = "PositionNotFound"
             /\ portfolio' = portfolio
             /\ positions' = positions]_vars

\* A close has failed for want of a position after an earlier close was
\* booked, while another position is open.
C39_Witness ==
    /\ ret.op = "close_position"
    /\ ret.result = "PositionNotFound"
    /\ portfolio.total_trades = 1
    /\ portfolio.total_pnl # 0
    /\ DOMAIN positions # {}

----------------------------------------------------------------------------
(* C40 *)

\* C40: When every open uses a size that validate_trade accepted under the
\* same lock and every close is at a non-negative exit price,
\* available_capital is never negative.
C40_AvailableCapitalNonNegative == portfolio.available_capital >= 0

\* Two validated opens have left less capital than the smallest size, and
\* validation now refuses a further open for want of capital.
C40_Witness ==
    /\ ret.op = "open_position"
    /\ Cardinality(DOMAIN positions) = 2
    /\ portfolio.available_capital < 2500
    /\ \A z \in CapitalSizes :
          validate_trade(config, portfolio, positions, z, BuyVolatility, now)
             = "InsufficientCapital"

----------------------------------------------------------------------------
(* The ingestion task and the tick channel *)

\* The read loop has handled a frame that decodes as a tick.
TickSent == ws'.ticks_received = ws.ticks_received + 1

\* The read loop has handled a frame that is not text or does not decode.
FrameSkipped == ws'.skipped = ws.skipped + 1

\* C31: A frame that decodes as a tick puts one tick at the end of the tick
\* channel; the feature task takes the tick at the head of the channel and
\* pushes it into the feature buffer; nothing else changes the channel, and
\* the ticks sent are the ticks received plus the ticks queued, so every tick
\* is delivered once and in arrival order.  A frame that does not decode, or
\* is not text, changes nothing in the channel and leaves the read loop
\* running.
C31_TicksDeliveredInOrder ==
    /\ [](ws.ticks_received = received + Len(tick_ch))
    /\ [][/\ TickSent =>
                /\ \E t \in TickInputs : tick_ch' = Append(tick_ch, t)
                /\ UNCHANGED <<data, received>>
          /\ FrameSkipped =>
                /\ ws'.pc = "read"
                /\ UNCHANGED <<tick_ch, data, received>>
          /\ TickReceived =>
                /\ tick_ch # << >>
                /\ tick_ch' = Tail(tick_ch)
                /\ data' = LastTicks(Append(data, Head(tick_ch)), opt.window_size)
          /\ tick_ch' # tick_ch => TickSent \/ TickReceived]_vars

\* After a frame was skipped the stream is still read, two ticks have reached
\* the feature buffer in the order they were sent and a third is queued.
C31_Witness ==
    /\ ws.pc = "read"
    /\ ws.skipped = 1
    /\ ws.ticks_received = 3
    /\ received = 2
    /\ data = << [price |-> 100, volume |-> 1], [price |-> 101, volume |-> 1] >>
    /\ tick_ch = << [price |-> 102, volume |-> 2] >>

\* The capacity of the claim (1024 by default), scaled to the number of ticks
\* a run of the model carries.
TickChannelCapacity == 2

\* C32: The number of ticks queued between the ingestion task and the
\* feature task never exceeds the capacity of the tick channel.
C32_TickChannelBounded == Len(tick_ch) <= TickChannelCapacity

\* C33: After a failed connect, a failed subscription, a read error or the
\* end of the stream, and with no shutdown, the ingestion task eventually
\* reads frames from a connection again.
C33_ReconnectsAfterFailure ==
    (ws.pc = "ended" /\ ~shutdown) ~> (ws.pc = "read" \/ shutdown)

----------------------------------------------------------------------------
(* C37 *)

\* CandleBuilder::add_trade has just returned.
TradeAdded == added' = added + 1

\* The candles the builder holds: the completed ones and the current one.
Candles ==
    { builder.completed_candles[i] : i \in DOMAIN builder.completed_candles }
        \cup { builder.current_candle[i] : i \in DOMAIN builder.current_candle }

\* A candle that holds one trade.
Fresh(c) ==
    /\ c.trade_count = 1
    /\ c.buy_count + c.sell_count = 1
    /\ c.open = c.close /\ c.high = c.close /\ c.low = c.close

\* C37: The first trade starts the current candle and completes none.  A
\* later trade that arrives before interval_ms has passed since the current
\* candle's timestamp is merged into it: trade_count grows by one, high and
\* low widen to include the trade's price, close is that price, open and the
\* completed candles stay.  A trade that arrives after the interval appends
\* the current candle to the completed ones, dropping the oldest when there
\* are more than max_candles, and starts a new candle from the trade.  In
\* every candle buy_count + sell_count = trade_count, and the completed
\* candles are never more than max_candles.
C37_CandleBuilder ==
    /\ [](/\ Len(builder.completed_candles) <= builder.max_candles
          /\ \A c \in Candles :
                /\ c.buy_count + c.sell_count = c.trade_count
                /\ c.low <= c.open /\ c.open <= c.high
                /\ c.low <= c.close /\ c.close <= c.high)
    /\ [][TradeAdded =>
            LET old == builder.current_candle
                new == builder'.current_candle
            IN  /\ Len(new) = 1
                /\ IF old = << >>
                   THEN /\ Fresh(new[1])
                        /\ builder'.completed_candles = << >>
                   ELSE IF instant - old[1].timestamp < builder.interval_ms
                   THEN /\ new[1].trade_count = old[1].trade_count + 1
                        /\ new[1].high = Max(old[1].high, new[1].close)
                        /\ new[1].low = Min(old[1].low, new[1].close)
                        /\ new[1].open = old[1].open
                        /\ new[1].timestamp = old[1].timestamp
                        /\ builder'.completed_candles = builder.completed_candles
                   ELSE /\ Fresh(new[1])
                        /\ builder'.completed_candles =
                              LastTicks(Append(builder.completed_candles, old[1]),
                                        builder.max_candles)]_vars

\* Four trades: the first candle was completed and then dropped for the
\* second, and the current candle has merged a trade that widened it.
C37_Witness ==
    /\ added = 4
    /\ builder.max_candles = 1
    /\ Len(builder.completed_candles) = 1
    /\ builder.completed_candles[1].trade_count = 1
    /\ builder.current_candle # << >>
    /\ builder.current_candle[1].trade_count = 2
    /\ builder.current_candle[1].high > builder.current_candle[1].open
    /\ builder.current_candle[1].buy_count = 1
====
